---- MODULE Spec2Model ----
(***************************************************************************)
(* Model of the match-scoring engine of the AI-Talent-Matcher backend:     *)
(*   - normalize_final_score / calculate_match_score  (match_service.py)   *)
(*   - get_parsed_cv                                  (storage_service.py) *)
(*   - analyze_match                                  (api/cv.py)          *)
(*   - apply_to_job, get_all_applications_for_recruiter and the background *)
(*     scoring threads they start                     (api/applications.py)*)
(*                                                                         *)
(* Numbers.  Scores are fixed-point integers in thousandths (1000 = 1.0),  *)
(* the resolution round(x, 3) keeps; weights are integers in hundredths    *)
(* (20 = 0.20), the resolution of the WEIGHTS table.  round() is modelled  *)
(* as exact round-half-even of the rational quotient.                      *)
(***************************************************************************)
EXTENDS Integers, Sequences, FiniteSets, TLC

VARIABLES
    nf,         \* one call of normalize_final_score: inputs, position, result
    oc,         \* one call of calculate_match_score: inputs, position, locals
    http,       \* the response of analyze_match to its caller
    apps,       \* table applications: application id -> row
    job,        \* table job_position: the row of the job applied to
    cvFiles,    \* storage bucket: candidate -> snapshots under <id>/parsed
    tasks,      \* background threads: task id -> thread state
    resp,       \* the response of the last request handled by the API
    sk,         \* one call of calculate_skills_match_score
    rm,         \* one call of match_roles_to_csv_titles
    rt,         \* one call of a function wrapped by retry_supabase_operation
    gp          \* one call of get_parsed_cv, request by request

vars == <<nf, oc, http, apps, job, cvFiles, tasks, resp, sk, rm, rt, gp>>

normVars == <<nf>>
fnVars   == <<sk, rm, rt, gp>>
calcVars == <<oc, http>>
appVars  == <<apps, job, cvFiles, tasks, resp>>

-----------------------------------------------------------------------------
(* Values shared by all parts *)

\* Python None / SQL NULL for a value that is a dict, a list or a record
NULL == <<>>

\* a nullable number: NULL, or the number boxed
Some(v) == <<v>>

\* no exception
NoExc == "none"

\* digits kept by round(final_score, 3)
Decimals == 3

\* 1.0 in thousandths
ScoreUnit == 10 ^ Decimals

\* 1.00 in hundredths (the WEIGHTS table has two decimals)
WeightUnit == 100

ComponentOrder == <<"education", "experience", "projects", "certifications", "skills">>

Components == {ComponentOrder[i] : i \in 1..Len(ComponentOrder)}

WEIGHTS ==
    [education |-> 20, experience |-> 40, projects |-> 20,
     certifications |-> 10, skills |-> 10]

\* dict.get(k, default)
Get(d, k, default) == IF k \in DOMAIN d THEN d[k] ELSE default

RECURSIVE SumOver(_, _)
SumOver(f, S) ==
    IF S = {} THEN 0
    ELSE LET x == CHOOSE y \in S : TRUE
         IN  f[x] + SumOver(f, S \ {x})

\* round(n / d) to the nearest integer, ties to even; d > 0
RoundDiv(n, d) ==
    LET q == n \div d
        r == n % d
    IN  IF 2 * r < d THEN q
        ELSE IF 2 * r > d THEN q + 1
        ELSE IF q % 2 = 0 THEN q ELSE q + 1

-----------------------------------------------------------------------------
(* normalize_final_score *)

\* the weighted sum divided by the constant 1.00 instead of the total weight
normalize_final_score_unnormalized(component_scores, weights) ==
    LET total_score ==
            SumOver([c \in DOMAIN weights |->
                        Get(component_scores, c, 0) * weights[c]],
                    DOMAIN weights)
    IN  RoundDiv(total_score, WeightUnit)

\* a component of weights that component_scores lacks is left out of both sums
normalize_final_score_present_only(component_scores, weights) ==
    LET present == DOMAIN weights \cap DOMAIN component_scores
        total_score == SumOver([c \in present |-> component_scores[c] * weights[c]], present)
        total_weight == SumOver(weights, present)
    IN  IF total_weight > 0
        THEN RoundDiv(total_score, total_weight)
        ELSE 0

normalize_final_score(component_scores, weights) ==
    LET total_score ==
            SumOver([c \in DOMAIN weights |->
                        Get(component_scores, c, 0) * weights[c]],
                    DOMAIN weights)
        total_weight == SumOver(weights, DOMAIN weights)
    IN  IF total_weight > 0
        THEN RoundDiv(total_score, total_weight)
        ELSE 0

\* Bounds of the inputs tried on normalize_final_score
NormSize == 2
ScoreSteps == 2
WeightSteps == 2

NormNames == {ComponentOrder[i] : i \in 1..NormSize}

\* scores on a grid over [0.0, 1.0]
ScoreGrid == {(k * ScoreUnit) \div ScoreSteps : k \in 0..ScoreSteps}

\* weights on a grid over [-1.00, 1.00]: a weight map is any map to floats
WeightGrid == {(k * WeightUnit) \div WeightSteps : k \in (0 - WeightSteps)..WeightSteps}

\* all maps from a subset of S to V (Python dicts with keys in S)
Dicts(S, V) == UNION {[D -> V] : D \in SUBSET S}

NfIdle == [pc |-> "idle"]

NfInit ==
    \E s \in Dicts(NormNames, ScoreGrid), w \in Dicts(NormNames, WeightGrid) :
        nf = [pc |-> "call", component_scores |-> s, weights |-> w, result |-> 0]

NfCall ==
    /\ nf.pc = "call"
    /\ nf' = [nf EXCEPT !.pc = "return",
                        !.result = normalize_final_score(nf.component_scores, nf.weights)]
    /\ UNCHANGED <<calcVars, appVars, fnVars>>

-----------------------------------------------------------------------------
(* get_parsed_cv: the candidate's snapshots under <user_id>/parsed.         *)
(* A listed file is [ts, updated_at, data]: ts is the YYYYMMDD_HHMMSS      *)
(* prefix of its name, updated_at the value of                             *)
(* file_info.get("updated_at") or file_info.get("created_at") (NULL when   *)
(* the listing reports neither), data the JSON document stored in it.      *)
(* An instant is [year, rest]; the two string formats that carry it are    *)
(* ordered as Python orders the strings.                                   *)

Raise(exc) == [raised |-> TRUE, exc |-> exc, value |-> NULL]

Return(v) == [raised |-> FALSE, exc |-> NoExc, value |-> v]

\* bool(x) of a value that is None, a list, a dict or a non-empty string
Truthy(x) == x # NULL

\* the sort key of one listed file (lines 377-382): updated_at when it is a
\* non-empty string, else the timestamp extracted from the file name
SortKey(f) ==
    IF Truthy(f.updated_at)
    THEN [fmt |-> "iso", at |-> f.updated_at]
    ELSE [fmt |-> "name", at |-> f.ts]

\* a < b for the strings the keys stand for: "YYYY-MM-DDT.." (iso) and
\* "YYYYMMDD_HHMMSS" (name); after the four digits of the year, '-' sorts
\* before every digit
KeyLess(a, b) ==
    IF a.at.year # b.at.year THEN a.at.year < b.at.year
    ELSE IF a.fmt = b.fmt THEN a.at.rest < b.at.rest
    ELSE a.fmt = "iso"

\* files.sort(key=extract_timestamp, reverse=True) then
\* files_with_metadata.sort(key=..., reverse=True): both stable; the index of
\* the file that ends first
NameLess(f, g) ==
    IF f.ts.year # g.ts.year THEN f.ts.year < g.ts.year ELSE f.ts.rest < g.ts.rest

\* position of files[i] after the first (file name) sort, as a rank: smaller is earlier
Before1(files, i, j) ==
    \/ NameLess(files[j], files[i])
    \/ (~NameLess(files[i], files[j]) /\ i < j)

Before2(files, i, j) ==
    \/ KeyLess(SortKey(files[j]), SortKey(files[i]))
    \/ (~KeyLess(SortKey(files[i]), SortKey(files[j])) /\ Before1(files, i, j))

LatestIndex(files) ==
    CHOOSE i \in DOMAIN files : \A j \in DOMAIN files \ {i} : Before2(files, i, j)

\* fault: the connectivity failure the storage calls of this request meet
\* once the retries of the wrapped calls are used up: "none", "list", "download"
get_parsed_cv(files, timestamp, fault) ==
    IF Truthy(timestamp)
    THEN IF fault = "list" THEN Raise("ConnectError")
         ELSE LET hits == {i \in DOMAIN files : files[i].ts = timestamp}
              IN  IF hits = {}
                  THEN Raise("CV with timestamp not found")
                  ELSE IF fault = "download"
                       THEN Raise("Failed to download CV file due to connection error")
                       ELSE Return(files[CHOOSE i \in hits : \A j \in hits : i <= j].data)
    ELSE IF fault = "list"
         THEN Raise("Failed to retrieve CV files due to connection error")
         ELSE IF files = <<>>
              THEN Raise("No parsed CVs found for user")
              ELSE IF fault = "download"
                   THEN Raise("Failed to download CV file due to connection error")
                   ELSE Return(files[LatestIndex(files)].data)

\* get_latest_cv_file_info: None when the listing fails or is empty, else
\* the name timestamp of the file the same two sorts put first
get_latest_cv_file_info(files, fault) ==
    IF fault = "list" \/ files = <<>>
    THEN NULL
    ELSE [timestamp |-> files[LatestIndex(files)].ts]

-----------------------------------------------------------------------------
(* calculate_match_score, as the steps of one call.                        *)
(* A parsed CV is a dict; a missing key reads as the empty list.           *)
(* An agent outcome is [raise, score]: the scorer raises, or returns a      *)
(* result whose match_score is score.                                      *)

EmptyDoc == <<>>

Edu(projs, certs) == [degree |-> "bsc", academic_projects |-> projs, certifications |-> certs]

\* the documents tried as stored snapshots
Docs ==
    { EmptyDoc,
      [identity |-> "cv"],
      [identity |-> "cv", experience |-> <<"job1">>],
      [identity |-> "cv", education |-> <<Edu(<<>>, <<>>)>>, experience |-> <<"job1">>,
       projects |-> <<"p1">>, certifications |-> <<"c1">>],
      [identity |-> "cv", education |-> <<Edu(<<"ap1">>, <<"ec1">>)>>],
      [identity |-> "cv", education |-> <<Edu(<<>>, <<>>), Edu(<<"ap1">>, <<>>)>>,
       certifications |-> <<"c1">>],
      [identity |-> "cv", education |-> <<Edu(<<>>, <<>>), Edu(<<"ap1">>, <<>>)>>] }

RECURSIVE Extend(_, _)
\* for edu in education_list: data.extend(edu.get(key, []))
Extend(education_list, key) ==
    IF education_list = <<>> THEN <<>>
    ELSE Get(Head(education_list), key, <<>>) \o Extend(Tail(education_list), key)

\* the fallback under education is never read: only the top-level section
SectionDataTopLevelOnly(cv_data, component) ==
    IF component \in {"education", "experience", "projects", "certifications"}
    THEN Get(cv_data, component, <<>>)
    ELSE <<>>

\* the data handed to the agent of one LLM component (lines 263, 279,
\* 295-301, 318-324)
SectionData(cv_data, component) ==
    CASE component = "education" -> Get(cv_data, "education", <<>>)
      [] component = "experience" -> Get(cv_data, "experience", <<>>)
      [] component = "projects" ->
            IF Get(cv_data, "projects", <<>>) # <<>>
            THEN cv_data.projects
            ELSE Extend(Get(cv_data, "education", <<>>), "academic_projects")
      [] component = "certifications" ->
            IF Get(cv_data, "certifications", <<>>) # <<>>
            THEN cv_data.certifications
            ELSE Extend(Get(cv_data, "education", <<>>), "certifications")
      [] OTHER -> <<>>

\* whether the step of this component calls its scorer: the four LLM agents
\* only on non-empty data, calculate_skills_match_score always
Invokes(cv_data, component) ==
    component = "skills" \/ SectionData(cv_data, component) # <<>>

\* the entry of component_results for one component
ScoredResult(score) == [match_score |-> score, marker |-> "scored"]

NoDataResult == [match_score |-> 0, marker |-> "no data found"]

ErrorResult == [match_score |-> 0, marker |-> "error"]

\* an exception of one scorer ends the whole call instead of one component
ComponentStepUnguarded(cv_data, component, outcome) ==
    IF Invokes(cv_data, component)
    THEN IF outcome.raise
         THEN [raised |-> TRUE, score |-> 0, result |-> ErrorResult, invoked |-> TRUE]
         ELSE [raised |-> FALSE, score |-> outcome.score,
               result |-> ScoredResult(outcome.score), invoked |-> TRUE]
    ELSE [raised |-> FALSE, score |-> 0, result |-> NoDataResult, invoked |-> FALSE]

\* one try/except block of lines 260-347
ComponentStep(cv_data, component, outcome) ==
    IF Invokes(cv_data, component)
    THEN IF outcome.raise
         THEN [raised |-> FALSE, score |-> 0, result |-> ErrorResult, invoked |-> TRUE]
         ELSE [raised |-> FALSE, score |-> outcome.score,
               result |-> ScoredResult(outcome.score), invoked |-> TRUE]
    ELSE [raised |-> FALSE, score |-> 0, result |-> NoDataResult, invoked |-> FALSE]

\* the dict returned when the CV cannot be read (lines 227-232, 240-245)
NoCVResult(error) ==
    [final_score |-> 0, error |-> error,
     component_scores |-> <<>>, component_results |-> <<>>]

\* the dict built at lines 355-375
Output(o) ==
    [metadata |-> [cv_timestamp |-> o.in.cv_timestamp],
     component_scores |-> o.component_scores,
     component_weights |-> WEIGHTS,
     component_results |-> o.component_results,
     final_score |-> o.final_score,
     score_breakdown |->
        [c \in DOMAIN o.component_scores |->
            [raw_score |-> o.component_scores[c],
             weight |-> Get(WEIGHTS, c, 0),
             weighted_score |-> RoundDiv(o.component_scores[c] * Get(WEIGHTS, c, 0), WeightUnit)]]]

\* a call about to start; in = [files, cv_timestamp, fault, ctor]
OcStart(in) ==
    [pc |-> "FETCH_CV", in |-> in, cv_data |-> NULL, idx |-> 1,
     component_scores |-> <<>>, component_results |-> <<>>,
     outcomes |-> <<>>, invoked |-> {}, args |-> <<>>, final_score |-> 0,
     store |-> "none", attempts |-> 0, artifacts |-> <<>>, returned |-> NULL,
     trace |-> <<"FETCH_CV">>]

Goto(o, pc) == [o EXCEPT !.pc = pc, !.trace = Append(o.trace, pc)]

\* lines 222-254: read the CV, then construct the four agents
OcFetch(o) ==
    LET r == get_parsed_cv(o.in.files, o.in.cv_timestamp, o.in.fault)
    IN  IF r.raised
        THEN [Goto(o, "FAILED_NO_CV") EXCEPT
                !.returned = NoCVResult(<<"Failed to retrieve CV data: ", r.exc>>)]
        ELSE IF ~Truthy(r.value)
        THEN [Goto(o, "FAILED_NO_CV") EXCEPT
                !.returned = NoCVResult(<<"No CV data found", ". Please upload your CV first.">>)]
        ELSE IF o.in.ctor = "raise"
        THEN Goto(o, "RAISED")
        ELSE [Goto(o, "SCORE_COMPONENTS") EXCEPT !.cv_data = r.value]

\* lines 260-347: the block of component ComponentOrder[o.idx]
OcScore(o, outcome) ==
    LET c == ComponentOrder[o.idx]
        r == ComponentStep(o.cv_data, c, outcome)
        n == [o EXCEPT
                !.component_scores = (c :> r.score) @@ o.component_scores,
                !.component_results = (c :> r.result) @@ o.component_results,
                !.outcomes = IF r.invoked THEN (c :> outcome) @@ o.outcomes ELSE o.outcomes,
                !.invoked = IF r.invoked THEN o.invoked \cup {c} ELSE o.invoked,
                !.args = IF r.invoked /\ c # "skills"
                         THEN (c :> SectionData(o.cv_data, c)) @@ o.args ELSE o.args,
                !.idx = o.idx + 1]
    IN  IF r.raised THEN Goto(n, "RAISED")
        ELSE IF o.idx = Len(ComponentOrder) THEN Goto(n, "AGGREGATE")
        ELSE n

\* the artifact is written as soon as the last component is scored, before
\* the final score is computed
OcAggregateAfterWrite(o) ==
    LET w == [o EXCEPT !.attempts = @ + 1, !.artifacts = <<Output(o)>>]
    IN  Goto([w EXCEPT !.final_score = normalize_final_score(o.component_scores, WEIGHTS)],
             "PERSIST")

\* lines 349-375
OcAggregate(o) ==
    LET f == [o EXCEPT !.final_score = normalize_final_score(o.component_scores, WEIGHTS)]
    IN  Goto(f, "PERSIST")

\* a failed upload of the artifact ends the call with the exception
OcPersistUnguarded(o, store) ==
    IF store = "ok"
    THEN [Goto(o, "DONE") EXCEPT
            !.store = store, !.attempts = @ + 1,
            !.artifacts = <<Output(o)>>, !.returned = Output(o)]
    ELSE [Goto(o, "RAISED") EXCEPT !.store = store, !.attempts = @ + 1]

\* lines 377-403: store_match_result in its try/except, then return output
OcPersist(o, store) ==
    [Goto(o, "DONE") EXCEPT
        !.store = store,
        !.attempts = @ + 1,
        !.artifacts = IF store = "ok" THEN <<Output(o)>> ELSE <<>>,
        !.returned = Output(o)]

OcTerminal(o) == o.pc \in {"FAILED_NO_CV", "DONE", "RAISED"}

RECURSIVE OcRun(_, _, _)
\* the call run to its end; agents: component -> outcome, store: "ok"/"fail"
OcRun(o, agents, store) ==
    CASE o.pc = "FETCH_CV" -> OcRun(OcFetch(o), agents, store)
      [] o.pc = "SCORE_COMPONENTS" ->
            OcRun(OcScore(o, agents[ComponentOrder[o.idx]]), agents, store)
      [] o.pc = "AGGREGATE" -> OcRun(OcAggregate(o), agents, store)
      [] o.pc = "PERSIST" -> OcRun(OcPersist(o, store), agents, store)
      [] OTHER -> o

calculate_match_score(in, agents, store) == OcRun(OcStart(in), agents, store)

OcIdle == [pc |-> "idle"]

HttpIdle == [code |-> 0, body |-> NULL]

AppIdle ==
    /\ apps = <<>>
    /\ job = NULL
    /\ cvFiles = <<>>
    /\ tasks = <<>>
    /\ resp = NULL

\* no call of the skill scorer, the role matcher or a retried function
FnIdle ==
    /\ sk = [pc |-> "idle"]
    /\ rm = [pc |-> "idle"]
    /\ rt = [pc |-> "idle"]
    /\ gp = [pc |-> "idle"]

InitNorm ==
    /\ NfInit
    /\ FnIdle
    /\ oc = OcIdle
    /\ http = HttpIdle
    /\ AppIdle

NextNorm == NfCall

SpecNorm == InitNorm /\ [][NextNorm]_vars

TotalWeight(weights) == SumOver(weights, DOMAIN weights)

InUnitRange(x) == 0 <= x /\ x <= ScoreUnit

ReferenceAggregate(component_scores, weights) ==
    LET present == DOMAIN component_scores \cap DOMAIN weights
        total_score == SumOver([c \in present |-> component_scores[c] * weights[c]], present)
        total_weight == SumOver(weights, present)
    IN  IF total_weight = 0 THEN 0
        ELSE IF total_weight > 0 THEN RoundDiv(total_score, total_weight)
        ELSE RoundDiv(0 - total_score, 0 - total_weight)

\* scenario A: education 0, experience 0.8, projects 0, certifications 0,
\* skills 0.5
ScenarioA ==
    [education |-> 0, experience |-> 800, projects |-> 0,
     certifications |-> 0, skills |-> 500]

\* C12: normalize_final_score equals the reference aggregate on every input;
\* aggregate({}, weights) = 0.0, aggregate(scores, {}) = 0.0, and scenario A
\* with the default weights gives 0.370.
C12_EqualsReferenceAggregate ==
    /\ normalize_final_score(ScenarioA, WEIGHTS) = 370
    /\ nf.pc = "return" =>
            /\ nf.result = ReferenceAggregate(nf.component_scores, nf.weights)
            /\ (nf.component_scores = <<>> \/ nf.weights = <<>>) => nf.result = 0

\* the sums of the amended aggregate: every component of weights counts, one
\* that component_scores lacks with score 0
WeightedSum(component_scores, weights) ==
    SumOver([c \in DOMAIN weights |->
                IF c \in DOMAIN component_scores
                THEN component_scores[c] * weights[c] ELSE 0],
            DOMAIN weights)

Abs(x) == IF x < 0 THEN 0 - x ELSE x

\* C12 (amended): the result is a thousandth nearest to the weighted sum over
\* all components of weights (a component missing from component_scores
\* scoring 0) divided by the sum of all weights when that sum is positive,
\* and 0.0 otherwise; empty maps give 0.0 and scenario A gives 0.370.
C12_EqualsAggregateOverAllWeights ==
    /\ normalize_final_score(ScenarioA, WEIGHTS) = 370
    /\ nf.pc = "return" =>
            LET total_weight == TotalWeight(nf.weights)
                total_score == WeightedSum(nf.component_scores, nf.weights)
            IN  /\ total_weight > 0 =>
                        2 * Abs(nf.result * total_weight - total_score) <= total_weight
                /\ total_weight <= 0 => nf.result = 0
                /\ (nf.component_scores = <<>> \/ nf.weights = <<>>) => nf.result = 0

\* a call whose weights, all positive, name a component that component_scores
\* lacks, with a non-zero result that differs from the reference aggregate
C12_Witness ==
    /\ nf.pc = "return"
    /\ DOMAIN nf.weights \ DOMAIN nf.component_scores # {}
    /\ \A c \in DOMAIN nf.weights : nf.weights[c] > 0
    /\ nf.result > 0
    /\ nf.result # ReferenceAggregate(nf.component_scores, nf.weights)

-----------------------------------------------------------------------------
(* analyze_match (POST /cv/match): the synchronous caller of               *)
(* calculate_match_score, one request followed to its response.            *)

\* Bound: snapshots a candidate holds in the calls tried
MaxFiles == 1

\* the year every instant of the model lies in, and one instant per tick
Instant(k) == [year |-> 2024, rest |-> k]

\* listings of n files: file i is named and dated Instant(i)
Listings(n) ==
    {[i \in 1..n |-> [ts |-> Instant(i), updated_at |-> Instant(i), data |-> d[i]]] :
        d \in [1..n -> Docs]}

FileLists == UNION {Listings(n) : n \in 0..MaxFiles}

\* the cv_timestamp values tried: none, each stored one, and one not stored
Timestamps == {NULL} \cup {Instant(k) : k \in 1..(MaxFiles + 1)}

Faults == {"none", "list", "download"}

Raises == [raise |-> TRUE, score |-> 0]

Scores(v) == [raise |-> FALSE, score |-> v]

\* outcome of a component whose scorer is not called
NotCalled == [raise |-> FALSE, score |-> 0]

\* a match_score outside [0.0, 1.0]: the agent's result is the structured
\* answer of an LLM, read at lines 266, 282, 305, 328 as it comes
OutOfRange == {(3 * ScoreUnit) \div 2}

AgentOutcomes == {Raises} \cup {Scores(v) : v \in ScoreGrid \cup OutOfRange}

\* calculate_skills_match_score raises or returns a match_score that its
\* min(1.0, ...) keeps in range (lines 144, 153)
SkillsOutcomes == {Raises} \cup {Scores(v) : v \in ScoreGrid}

OutcomesOf(component) ==
    IF component = "skills" THEN SkillsOutcomes ELSE AgentOutcomes

StoreOutcomes == {"ok", "fail"}

\* the fields MatchAnalysisResponse requires (schemas/cv/match.py 15-20)
ResponseRequired ==
    {"final_score", "component_scores", "component_weights",
     "component_results", "score_breakdown", "metadata"}

\* MatchAnalysisResponse(**match_result) accepts the dict: every required
\* field present, final_score within ge=0.0, le=1.0
Validates(result) ==
    /\ ResponseRequired \subseteq DOMAIN result
    /\ InUnitRange(result.final_score)

CalcInit ==
    /\ \E files \in FileLists, ts \in Timestamps, fault \in Faults,
          ctor \in {"ok", "raise"}, job_found \in BOOLEAN :
            oc = [OcStart([files |-> files, cv_timestamp |-> ts, fault |-> fault,
                           ctor |-> ctor, job_found |-> job_found])
                    EXCEPT !.pc = "REQUEST", !.trace = <<>>]
    /\ http = HttpIdle

\* api/cv.py 504-516: unknown job id -> 404, calculate_match_score not called
AmJobNotFound ==
    /\ oc.pc = "REQUEST"
    /\ ~oc.in.job_found
    /\ oc' = [oc EXCEPT !.pc = "NOT_CALLED"]
    /\ http' = [code |-> 404, body |-> NULL]
    /\ UNCHANGED <<normVars, fnVars, appVars>>

\* api/cv.py 518-529: the call starts
AmCall ==
    /\ oc.pc = "REQUEST"
    /\ oc.in.job_found
    /\ oc' = Goto(oc, "FETCH_CV")
    /\ UNCHANGED <<http, normVars, fnVars, appVars>>

CalcFetch ==
    /\ oc.pc = "FETCH_CV"
    /\ oc' = OcFetch(oc)
    /\ UNCHANGED <<http, normVars, fnVars, appVars>>

CalcScore ==
    /\ oc.pc = "SCORE_COMPONENTS"
    /\ \E outcome \in IF Invokes(oc.cv_data, ComponentOrder[oc.idx])
                       THEN OutcomesOf(ComponentOrder[oc.idx]) ELSE {NotCalled} :
            oc' = OcScore(oc, outcome)
    /\ UNCHANGED <<http, normVars, fnVars, appVars>>

CalcAggregate ==
    /\ oc.pc = "AGGREGATE"
    /\ oc' = OcAggregate(oc)
    /\ UNCHANGED <<http, normVars, fnVars, appVars>>

CalcPersist ==
    /\ oc.pc = "PERSIST"
    /\ \E store \in StoreOutcomes : oc' = OcPersist(oc, store)
    /\ UNCHANGED <<http, normVars, fnVars, appVars>>

\* what analyze_match answers once the call has ended (api/cv.py 531-540)
AnalyzeResponse(o) ==
    IF o.pc = "RAISED" THEN [code |-> 500, body |-> NULL]
    ELSE IF Validates(o.returned) THEN [code |-> 200, body |-> o.returned]
    ELSE [code |-> 500, body |-> NULL]

AmRespond ==
    /\ OcTerminal(oc)
    /\ http.code = 0
    /\ http' = AnalyzeResponse(oc)
    /\ UNCHANGED <<oc, normVars, fnVars, appVars>>

InitCalc ==
    /\ CalcInit
    /\ FnIdle
    /\ nf = NfIdle
    /\ AppIdle

NextCalc ==
    \/ AmJobNotFound
    \/ AmCall
    \/ CalcFetch
    \/ CalcScore
    \/ CalcAggregate
    \/ CalcPersist
    \/ AmRespond

SpecCalc == InitCalc /\ [][NextCalc]_vars

\* the candidate has no snapshot for the call: none with the given timestamp,
\* or, without a timestamp, none at all
NoSnapshot(in) ==
    IF Truthy(in.cv_timestamp)
    THEN \A i \in DOMAIN in.files : in.files[i].ts # in.cv_timestamp
    ELSE in.files = <<>>

\* the parts of the degraded result C6 describes, but for the text of error
DegradedShape(o) ==
    /\ o.pc = "FAILED_NO_CV"
    /\ o.returned.final_score = 0
    /\ "error" \in DOMAIN o.returned
    /\ o.returned.error # NULL
    /\ o.returned.component_scores = <<>>
    /\ o.returned.component_results = <<>>
    /\ o.invoked = {}
    /\ o.artifacts = <<>>

\* C6 as stated: with no CV snapshot calculate_match_score does not raise and
\* returns final_score 0.0, an error beginning 'No CV data found', empty
\* component_scores and component_results, no scorer invoked, no artifact.
C6_NoCvErrorNoCvDataFound ==
    (OcTerminal(oc) /\ NoSnapshot(oc.in))
        => (DegradedShape(oc) /\ oc.returned.error[1] = "No CV data found")

\* what the call does return in that case: everything C6 lists, with an
\* error that begins 'Failed to retrieve CV data: ' and ends with the
\* message of the exception get_parsed_cv raised
NoSnapshotResult ==
    (OcTerminal(oc) /\ NoSnapshot(oc.in))
        => (DegradedShape(oc) /\ oc.returned.error[1] = "Failed to retrieve CV data: ")

\* C7: for every existing job id analyze_match answers with a well-formed
\* MatchResult (final_score, component_scores, component_weights,
\* component_results, score_breakdown, metadata), with final_score 0.0 and
\* error populated when degraded, never with an error response; only an
\* unknown job id gives not-found.  (Stated for calls whose agents can be
\* constructed.)
C7_AlwaysWellFormedResult ==
    (http.code # 0 /\ oc.in.ctor = "ok")
        => IF oc.in.job_found
           THEN /\ http.code = 200
                /\ ResponseRequired \subseteq DOMAIN http.body
                /\ (oc.pc = "FAILED_NO_CV"
                        => (http.body.final_score = 0 /\ http.body.error # NULL))
           ELSE http.code = 404

\* C11: component scores are clamped to [0.0, 1.0] before weighting, so every
\* result calculate_match_score returns has final_score in [0.0, 1.0], also
\* when a scorer returned a match_score outside that range.
C11_ScoresClamped ==
    oc.pc = "DONE" => InUnitRange(oc.returned.final_score)

\* C8: a scorer that raises is recorded with score 0.0 and an error marker,
\* every other called scorer keeps the score it returned, the result has all
\* five component keys and the final_score aggregated from them, and carries
\* no top-level error; no scorer's exception ends the call.
C8_ComponentFaultIsolation ==
    /\ (oc.pc = "RAISED" => \A c \in DOMAIN oc.outcomes : ~oc.outcomes[c].raise)
    /\ (oc.pc = "DONE" =>
            /\ DOMAIN oc.returned.component_scores = Components
            /\ DOMAIN oc.returned.component_results = Components
            /\ \A c \in DOMAIN oc.outcomes :
                    IF oc.outcomes[c].raise
                    THEN /\ oc.returned.component_scores[c] = 0
                         /\ oc.returned.component_results[c] = ErrorResult
                    ELSE /\ oc.returned.component_scores[c] = oc.outcomes[c].score
                         /\ oc.returned.component_results[c] = ScoredResult(oc.outcomes[c].score)
            /\ oc.returned.final_score =
                    normalize_final_score(oc.returned.component_scores, WEIGHTS)
            /\ "error" \notin DOMAIN oc.returned)

\* scenario D: the education agent alone raised, the other four scorers
\* returned non-zero scores, and the call ended with a non-zero final_score
C8_Witness ==
    /\ oc.pc = "DONE"
    /\ DOMAIN oc.outcomes = Components
    /\ \A c \in Components : oc.outcomes[c].raise <=> c = "education"
    /\ \A c \in Components \ {"education"} : oc.outcomes[c].score > 0
    /\ oc.returned.component_scores["education"] = 0
    /\ oc.returned.final_score > 0

\* a running call takes its next step
FairSpecCalc == SpecCalc /\ WF_vars(NextCalc)

\* the state order of a call that has ended, and what it wrote
OrderAndArtifact(o) ==
    /\ o.attempts <= 1
    /\ o.attempts = 1 =>
            /\ DOMAIN o.component_scores = Components
            /\ o.final_score = normalize_final_score(o.component_scores, WEIGHTS)
            /\ \A i \in DOMAIN o.artifacts : o.artifacts[i].final_score = o.final_score
    /\ o.pc = "FAILED_NO_CV" =>
            /\ o.trace = <<"FETCH_CV", "FAILED_NO_CV">>
            /\ o.attempts = 0
            /\ o.artifacts = <<>>
    /\ o.pc = "DONE" =>
            /\ o.trace = <<"FETCH_CV", "SCORE_COMPONENTS", "AGGREGATE", "PERSIST", "DONE">>
            /\ o.attempts = 1
            /\ Len(o.artifacts) <= 1
            /\ \A i \in DOMAIN o.artifacts : o.artifacts[i] = o.returned

FallbackKey(component) ==
    CASE component = "projects" -> "academic_projects"
      [] component = "certifications" -> "certifications"
      [] OTHER -> "none"

\* every education entry has the fallback of the component empty or absent
FallbackEmpty(cv_data, component) ==
    LET education_list == Get(cv_data, "education", <<>>)
    IN  \/ FallbackKey(component) = "none"
        \/ \A i \in DOMAIN education_list :
                Get(education_list[i], FallbackKey(component), <<>>) = <<>>

LLMComponents == {"education", "experience", "projects", "certifications"}

\* C23: for education, experience, projects and certifications, once the
\* block of the component has run: when the top-level section is empty (for
\* projects also every education[].academic_projects, for certifications
\* also every education[].certifications) the agent was not invoked and the
\* component holds score 0.0 with the "No ... data found" marker; when the
\* top-level section is empty and the fallback under education is not, the
\* agent was invoked with the fallback data.
C23_EmptySectionSkipsAgent ==
    \A c \in LLMComponents \cap DOMAIN oc.component_scores :
        Get(oc.cv_data, c, <<>>) = <<>> =>
            /\ FallbackEmpty(oc.cv_data, c) =>
                    /\ c \notin oc.invoked
                    /\ oc.component_scores[c] = 0
                    /\ oc.component_results[c] = NoDataResult
            /\ ~FallbackEmpty(oc.cv_data, c) =>
                    /\ c \in oc.invoked
                    /\ c \in DOMAIN oc.args
                    /\ oc.args[c] =
                          Extend(Get(oc.cv_data, "education", <<>>), FallbackKey(c))

\* a finished call on a CV without top-level projects or certifications whose
\* education carries academic projects and no certifications: the projects
\* agent ran on the academic projects, the certifications agent did not run
C23_Witness ==
    /\ oc.pc = "DONE"
    /\ Get(oc.cv_data, "projects", <<>>) = <<>>
    /\ Get(oc.cv_data, "certifications", <<>>) = <<>>
    /\ "projects" \in oc.invoked
    /\ oc.args["projects"] = <<"ap1">>
    /\ oc.component_scores["projects"] > 0
    /\ "certifications" \notin oc.invoked
    /\ oc.component_results["certifications"] = NoDataResult


-----------------------------------------------------------------------------
(* The applications API and its background scoring threads.                *)
(* Application a is the application of candidate a to the one job of the   *)
(* model.  A request handler is one step; a background thread takes one    *)
(* step per access to the database or to calculate_match_score.            *)

\* Bounds: applications (= candidates), background threads ever started,
\* snapshots a candidate uploads
MaxApps == 1
MaxTasks == 2
MaxCVs == 1

AppIds == 1..MaxApps

TaskIds == 1..MaxTasks

\* no row with this id in table applications
NoRow ==
    [exists |-> FALSE, status |-> "none", match_score |-> NULL,
     cover_letter |-> "", cv_file_timestamp |-> NULL, applied_at |-> 0]

\* the document every upload of the model stores
SampleCV ==
    [identity |-> "cv", education |-> <<Edu(<<>>, <<>>)>>, experience |-> <<"job1">>,
     projects |-> <<"p1">>, certifications |-> <<"c1">>]

\* what the scorers return in the calls of background threads: every scorer
\* the same score, one of two values (LLM answers are not reproducible)
TaskAgents == {[c \in Components |-> Scores(v)] : v \in {ScoreUnit \div 2, ScoreUnit}}

NoCall == [pc |-> "none", store |-> "none"]

FreeTask ==
    [kind |-> "free", origin |-> "none", list |-> <<>>, idx |-> 0, pc |-> "free",
     final_score |-> 0, call |-> NoCall, written |-> NULL,
     computed |-> {}, wrote |-> {}, visited |-> <<>>,
     processed |-> 0, skipped |-> 0, errors |-> 0, raised |-> FALSE,
     aborted |-> FALSE]

\* a thread about to run: kind "single" (calculate_match_in_background) or
\* "bulk" (calculate_missing_scores); list: the entries it was started for
NewTask(kind, origin, list) ==
    [FreeTask EXCEPT !.kind = kind, !.origin = origin, !.list = list,
                     !.idx = 1, !.pc = "client"]

\* one entry of a thread's work list; seen: the match_score the request that
\* started the thread had read for the application
Entry(a, ts, seen) ==
    [application_id |-> a, candidate_profile_id |-> a,
     cv_file_timestamp |-> ts, seen |-> seen]

NoResp == [op |-> "none", app |-> 0, code |-> 0, started |-> 0]

FreeIds == {t \in TaskIds : tasks[t].kind = "free"}

\* threading.Thread(...).start(): the thread gets the next unused id
FirstFree == CHOOSE t \in FreeIds : \A u \in FreeIds : t <= u

AppInit ==
    /\ apps = [a \in AppIds |-> NoRow]
    /\ job = [exists |-> TRUE, status |-> "open"]
    /\ cvFiles = [c \in AppIds |-> <<>>]
    /\ tasks = [t \in TaskIds |-> FreeTask]
    /\ resp = NoResp

\* POST /cv/extract: store_parsed_cv adds a snapshot (api/cv.py 112)
UploadCV(c) ==
    /\ Len(cvFiles[c]) < MaxCVs
    /\ LET k == Len(cvFiles[c]) + 1
       IN  cvFiles' = [cvFiles EXCEPT ![c] =
                Append(@, [ts |-> Instant(k), updated_at |-> Instant(k), data |-> SampleCV])]
    /\ UNCHANGED <<apps, job, tasks, resp, normVars, fnVars, calcVars>>

\* payload.cover_letter after str().strip(): "" when absent or blank
CoverLetters == {"", "letter"}

\* apply_to_job, no application of the candidate to the job yet (lines
\* 307-346 and 418-495): insert the row, start the scoring thread
ApplyNew(a, cover_letter) ==
    /\ job.exists /\ job.status = "open"
    /\ ~apps[a].exists
    /\ FreeIds # {}
    /\ LET cv_file_info == get_latest_cv_file_info(cvFiles[a], "none")
           cv_file_timestamp == IF cv_file_info = NULL THEN NULL ELSE cv_file_info.timestamp
           row == [exists |-> TRUE, status |-> "applied", match_score |-> NULL,
                   cover_letter |-> cover_letter,
                   cv_file_timestamp |-> cv_file_timestamp,
                   applied_at |-> Cardinality({b \in AppIds : apps[b].exists}) + 1]
           existing_match_score == row.match_score
           t == FirstFree
       IN  /\ apps' = [apps EXCEPT ![a] = row]
           /\ IF existing_match_score = NULL
              THEN /\ tasks' = [tasks EXCEPT ![t] =
                        NewTask("single", "create", <<Entry(a, cv_file_timestamp, NULL)>>)]
                   /\ resp' = [op |-> "apply_new", app |-> a, code |-> 201, started |-> t]
              ELSE /\ tasks' = tasks
                   /\ resp' = [op |-> "apply_new", app |-> a, code |-> 201, started |-> 0]
    /\ UNCHANGED <<job, cvFiles, normVars, fnVars, calcVars>>

\* a local name of apply_to_job: bound to a value, or not assigned on the
\* path taken
Unbound == [bound |-> FALSE, value |-> NULL]

\* `existing_match_score is None and cv_file_timestamp` (line 237), with the
\* binding of the local cv_file_timestamp on that path
ExistingGuard(existing_match_score, cv_file_timestamp) ==
    IF existing_match_score # NULL THEN "false"
    ELSE IF ~cv_file_timestamp.bound THEN "raise"
    ELSE IF Truthy(cv_file_timestamp.value) THEN "true"
    ELSE "false"

\* update_data of the existing-application path (lines 208-215)
UpdateData(row, cover_letter) ==
    [cover_letter |-> IF cover_letter # "" THEN cover_letter ELSE row.cover_letter,
     status |-> IF row.status = "withdrawn" THEN "applied" ELSE row.status]

NeedsUpdate(row, cover_letter) == cover_letter # "" \/ row.status = "withdrawn"

\* apply_to_job, the candidate already has an application to the job (lines
\* 197-306, 348-383).  cv_file_timestamp is assigned only on the creation
\* path (lines 314, 317), so it is unbound here.
ApplyExisting(a, cover_letter) ==
    /\ job.exists /\ job.status = "open"
    /\ apps[a].exists
    /\ LET app_data == apps[a]
           guard == ExistingGuard(app_data.match_score, Unbound)
           upd == UpdateData(app_data, cover_letter)
       IN  IF ~NeedsUpdate(app_data, cover_letter)
           THEN /\ resp' = [op |-> "apply_same", app |-> a, code |-> 201, started |-> 0]
                /\ UNCHANGED <<apps, tasks>>
           ELSE CASE guard = "raise" ->
                        /\ resp' = [op |-> "apply_existing", app |-> a, code |-> 500, started |-> 0]
                        /\ UNCHANGED <<apps, tasks>>
                  [] guard = "true" ->
                        /\ FreeIds # {}
                        /\ tasks' = [tasks EXCEPT ![FirstFree] =
                                NewTask("single", "reapply",
                                        <<Entry(a, Unbound.value, app_data.match_score)>>)]
                        /\ apps' = [apps EXCEPT ![a].cover_letter = upd.cover_letter,
                                                ![a].status = upd.status]
                        /\ resp' = [op |-> "apply_existing", app |-> a, code |-> 201,
                                    started |-> FirstFree]
                  [] OTHER ->
                        /\ apps' = [apps EXCEPT ![a].cover_letter = upd.cover_letter,
                                                ![a].status = upd.status]
                        /\ resp' = [op |-> "apply_existing", app |-> a, code |-> 201, started |-> 0]
                        /\ UNCHANGED tasks
    /\ UNCHANGED <<job, cvFiles, normVars, fnVars, calcVars>>

\* PATCH /applications/{id}/withdraw (lines 675-704)
Withdraw(a) ==
    /\ IF apps[a].exists
       THEN /\ apps' = [apps EXCEPT ![a].status = "withdrawn"]
            /\ resp' = [op |-> "withdraw", app |-> a, code |-> 200, started |-> 0]
       ELSE /\ apps' = apps
            /\ resp' = [op |-> "withdraw", app |-> a, code |-> 403, started |-> 0]
    /\ UNCHANGED <<job, cvFiles, tasks, normVars, fnVars, calcVars>>

\* DELETE /jobs/{id} (api/jobs.py 216-252): the applications, then the job
DeleteJob ==
    /\ job.exists
    /\ apps' = [a \in DOMAIN apps |-> NoRow]
    /\ job' = [job EXCEPT !.exists = FALSE]
    /\ resp' = [op |-> "delete_job", app |-> 0, code |-> 200, started |-> 0]
    /\ UNCHANGED <<cvFiles, tasks, normVars, fnVars, calcVars>>

\* the filter of the sweep dropped: every application is handed to the thread
applications_all ==
    LET need == {a \in DOMAIN apps : apps[a].exists}
        Newest(S) == CHOOSE a \in S : \A b \in S : apps[b].applied_at <= apps[a].applied_at
        order[S \in SUBSET need] ==
            IF S = {} THEN <<>>
            ELSE <<Entry(Newest(S), apps[Newest(S)].cv_file_timestamp,
                         apps[Newest(S)].match_score)>> \o order[S \ {Newest(S)}]
    IN  order[need]

\* GET /applications/recruiter/applications, lines 967-1094: the applications whose
\* match_score is None, newest first, handed to one thread
applications_needing_scores ==
    LET need == {a \in DOMAIN apps : apps[a].exists /\ apps[a].match_score = NULL}
        Newest(S) == CHOOSE a \in S : \A b \in S : apps[b].applied_at <= apps[a].applied_at
        order[S \in SUBSET need] ==
            IF S = {} THEN <<>>
            ELSE <<Entry(Newest(S), apps[Newest(S)].cv_file_timestamp,
                         apps[Newest(S)].match_score)>> \o order[S \ {Newest(S)}]
    IN  order[need]

ListApplications ==
    /\ job.exists
    /\ LET list == applications_needing_scores
       IN  IF list # <<>>
           THEN /\ FreeIds # {}
                /\ tasks' = [tasks EXCEPT ![FirstFree] = NewTask("bulk", "sweep", list)]
                /\ resp' = [op |-> "list", app |-> 0, code |-> 200, started |-> FirstFree]
           ELSE /\ tasks' = tasks
                /\ resp' = [op |-> "list", app |-> 0, code |-> 200, started |-> 0]
    /\ UNCHANGED <<apps, job, cvFiles, normVars, fnVars, calcVars>>

-----------------------------------------------------------------------------
(* The body of a scoring thread for its current entry: the re-check, the   *)
(* job fetch, calculate_match_score, the write (lines 434-483 for the      *)
(* single thread, 1010-1084 for the sweep).                                *)

Current(t) == tasks[t].list[tasks[t].idx]

\* `continue` / `return`: on to the next entry, or the end of the thread
Advance(T) ==
    IF T.idx < Len(T.list)
    THEN [T EXCEPT !.idx = T.idx + 1, !.pc = "check", !.call = NoCall, !.final_score = 0]
    ELSE [T EXCEPT !.pc = "done"]

\* the entry's score is already there
Skipped(T) ==
    IF T.kind = "bulk" THEN Advance([T EXCEPT !.skipped = T.skipped + 1]) ELSE Advance(T)

\* the missing job is not noticed: the thread goes on to the computation
JobMissingIgnored(T) == [T EXCEPT !.pc = "calc"]

\* the job of the entry is not found
JobMissing(T) ==
    IF T.kind = "bulk" THEN Advance([T EXCEPT !.errors = T.errors + 1]) ELSE Advance(T)

\* an exception inside the body ends the sweep as it ends the single thread
CaughtEndsThread(T) == [T EXCEPT !.pc = "done", !.raised = TRUE]

\* an exception inside the body: the outer except of the single thread
\* (lines 485-486), the per-entry except of the sweep (lines 1081-1084)
Caught(T) ==
    IF T.kind = "bulk"
    THEN Advance([T EXCEPT !.errors = T.errors + 1, !.raised = TRUE])
    ELSE [T EXCEPT !.pc = "done", !.raised = TRUE]

\* create_client of the sweep fails before its loop (line 1001, except 1088)
Aborted(T) == [T EXCEPT !.pc = "done", !.raised = TRUE, !.aborted = TRUE]

\* create_client (lines 434, 1001), before the first re-check
TaskClient(t, step) ==
    /\ tasks[t].pc = "client"
    /\ LET T == tasks[t]
       IN  tasks' = [tasks EXCEPT ![t] =
                IF step = "raise"
                THEN IF T.kind = "bulk" THEN Aborted(T) ELSE Caught(T)
                ELSE [T EXCEPT !.pc = "check"]]
    /\ UNCHANGED <<apps, job, cvFiles, resp, normVars, fnVars, calcVars>>

Steps == {"ok", "raise"}

\* the thread turns to its current entry (line 1010) and re-checks its score
\* (lines 437-447, 1020-1031)
TaskCheck(t, step) ==
    /\ tasks[t].pc = "check"
    /\ LET row == apps[Current(t).application_id]
           T == [tasks[t] EXCEPT !.visited = Append(@, Current(t).application_id)]
       IN  tasks' = [tasks EXCEPT ![t] =
                IF step = "raise" THEN Caught(T)
                ELSE IF row.exists /\ row.match_score # NULL THEN Skipped(T)
                ELSE [T EXCEPT !.pc = "job"]]
    /\ UNCHANGED <<apps, job, cvFiles, resp, normVars, fnVars, calcVars>>

\* the job fetch (lines 449-459, 1034-1045)
TaskFetchJob(t, step) ==
    /\ tasks[t].pc = "job"
    /\ LET T == tasks[t]
       IN  tasks' = [tasks EXCEPT ![t] =
                IF step = "raise" THEN Caught(T)
                ELSE IF ~job.exists THEN JobMissing(T)
                ELSE [T EXCEPT !.pc = "calc"]]
    /\ UNCHANGED <<apps, job, cvFiles, resp, normVars, fnVars, calcVars>>

\* the arguments of the call for the current entry: the candidate's
\* snapshots as they are now, the timestamp the entry carries
TaskInput(t, ctor) ==
    [files |-> cvFiles[Current(t).candidate_profile_id],
     cv_timestamp |-> Current(t).cv_file_timestamp,
     fault |-> "none", ctor |-> ctor, job_found |-> TRUE]

\* calculate_match_score (lines 465-475, 1059-1069)
TaskCalc(t, ctor, agents, store) ==
    /\ tasks[t].pc = "calc"
    /\ LET T == tasks[t]
           e == Current(t)
           o == calculate_match_score(TaskInput(t, ctor), agents, store)
           C == [T EXCEPT !.computed = T.computed \cup {e.application_id}]
       IN  tasks' = [tasks EXCEPT ![t] =
                IF o.pc = "RAISED" THEN Caught(C)
                ELSE [C EXCEPT !.pc = "write",
                               !.final_score = Get(o.returned, "final_score", 0),
                               !.call = [pc |-> o.pc, store |-> o.store]]]
    /\ UNCHANGED <<apps, job, cvFiles, resp, normVars, fnVars, calcVars>>

\* the thread ends its entry without the update of match_score
TaskWriteDropped(t, step) ==
    /\ tasks[t].pc = "write"
    /\ tasks' = [tasks EXCEPT ![t] =
            IF step = "raise" THEN Caught(tasks[t])
            ELSE IF tasks[t].kind = "bulk" THEN Advance(tasks[t])
            ELSE [tasks[t] EXCEPT !.pc = "done"]]
    /\ UNCHANGED <<apps, job, cvFiles, resp, normVars, fnVars, calcVars>>

\* the update sends the whole row as the thread knows it: status "applied"
\* along with the score
TaskWriteWholeRow(t, step) ==
    /\ tasks[t].pc = "write"
    /\ LET T == tasks[t]
           a == Current(t).application_id
           W == [T EXCEPT !.written = Some(T.final_score),
                          !.wrote = T.wrote \cup {a},
                          !.processed = IF T.kind = "bulk" THEN T.processed + 1 ELSE 0]
       IN  IF step = "raise"
           THEN /\ tasks' = [tasks EXCEPT ![t] = Caught(T)]
                /\ apps' = apps
           ELSE /\ tasks' = [tasks EXCEPT ![t] = IF T.kind = "bulk" THEN Advance(W)
                                                 ELSE [W EXCEPT !.pc = "done"]]
                /\ apps' = IF apps[a].exists
                           THEN [apps EXCEPT ![a].match_score = Some(T.final_score),
                                             ![a].status = "applied"]
                           ELSE apps
    /\ UNCHANGED <<job, cvFiles, resp, normVars, fnVars, calcVars>>

\* the write of match_score (lines 476-483, 1070-1079)
TaskWrite(t, step) ==
    /\ tasks[t].pc = "write"
    /\ LET T == tasks[t]
           a == Current(t).application_id
           W == [T EXCEPT !.written = Some(T.final_score),
                          !.wrote = T.wrote \cup {a},
                          !.processed = IF T.kind = "bulk" THEN T.processed + 1 ELSE 0]
       IN  IF step = "raise"
           THEN /\ tasks' = [tasks EXCEPT ![t] = Caught(T)]
                /\ apps' = apps
           ELSE /\ tasks' = [tasks EXCEPT ![t] = IF T.kind = "bulk" THEN Advance(W)
                                                 ELSE [W EXCEPT !.pc = "done"]]
                /\ apps' = IF apps[a].exists
                           THEN [apps EXCEPT ![a].match_score = Some(T.final_score)]
                           ELSE apps
    /\ UNCHANGED <<job, cvFiles, resp, normVars, fnVars, calcVars>>

\* the constructors of the four agents succeed or raise (lines 251-254)
Ctors == {"ok", "raise"}

\* one step of thread t
TaskStep(t) ==
    \/ \E step \in Steps : TaskClient(t, step)
    \/ \E step \in Steps : TaskCheck(t, step)
    \/ \E step \in Steps : TaskFetchJob(t, step)
    \/ \E ctor \in Ctors, agents \in TaskAgents, store \in StoreOutcomes :
            TaskCalc(t, ctor, agents, store)
    \/ \E step \in Steps : TaskWrite(t, step)

Init ==
    /\ nf = NfIdle
    /\ FnIdle
    /\ oc = OcIdle
    /\ http = HttpIdle
    /\ AppInit

Next ==
    \/ \E c \in AppIds : UploadCV(c)
    \/ \E a \in AppIds, cover_letter \in CoverLetters : ApplyNew(a, cover_letter)
    \/ \E a \in AppIds, cover_letter \in CoverLetters : ApplyExisting(a, cover_letter)
    \/ \E a \in AppIds : Withdraw(a)
    \/ DeleteJob
    \/ ListApplications
    \/ \E t \in TaskIds, step \in Steps : TaskClient(t, step)
    \/ \E t \in TaskIds, step \in Steps : TaskCheck(t, step)
    \/ \E t \in TaskIds, step \in Steps : TaskFetchJob(t, step)
    \/ \E t \in TaskIds, ctor \in Ctors, agents \in TaskAgents, store \in StoreOutcomes :
            TaskCalc(t, ctor, agents, store)
    \/ \E t \in TaskIds, step \in Steps : TaskWrite(t, step)

Spec == Init /\ [][Next]_vars

\* a started thread keeps running: the interpreter schedules every thread
\* and the server process stays up
FairSpec == Spec /\ \A t \in TaskIds : WF_vars(TaskStep(t))

-----------------------------------------------------------------------------
(* Properties of the triggers and the scoring threads                      *)

Started == {t \in TaskIds : tasks[t].kind # "free"}

EntryApps(t) == {tasks[t].list[i].application_id : i \in DOMAIN tasks[t].list}

\* the application a thread of the creation path was started for
CreatedApp(t) == tasks[t].list[1].application_id

\* C1: an application whose stored match_score is non-null when apply_to_job
\* (existing application) or the recruiter listing sweep reads it gets no
\* invocation of calculate_match_score from that event: no thread is ever
\* handed an application read with a score, and a thread calls
\* calculate_match_score only for the applications it was handed.
C1_NoComputationForScoredApplication ==
    \A t \in TaskIds :
        /\ \A i \in DOMAIN tasks[t].list : tasks[t].list[i].seen = NULL
        /\ tasks[t].computed \subseteq EntryApps(t)

\* the last request was a listing that found a scored application and
\* started no thread
C1_Witness ==
    /\ resp.op = "list"
    /\ resp.started = 0
    /\ \E a \in AppIds : apps[a].exists /\ apps[a].match_score # NULL
    /\ \E t \in Started : tasks[t].computed # {}

\* C2: under any interleaving of the creation thread and the sweep threads,
\* no two threads both invoke calculate_match_score and both write match_score
\* for the same application.
C2_AtMostOneComputeAndWrite ==
    \A a \in AppIds :
        Cardinality({t \in TaskIds : a \in tasks[t].computed /\ a \in tasks[t].wrote}) <= 1

\* C3: once an application's match_score is non-null, no step changes it
\* while the application exists.
C3_ScoreKeepsFirstWrite ==
    [][\A a \in AppIds :
            (apps[a].match_score # NULL /\ apps'[a].exists)
                => apps'[a].match_score = apps[a].match_score]_vars

\* C4: apply_to_job on an existing application that needs an update
\* (withdrawn, or a non-empty cover letter) and whose match_score is null
\* completes the update and starts one scoring thread for that application.
C4_ReactivationUpdatesAndSchedules ==
    [][\A a \in AppIds, cover_letter \in CoverLetters :
            (/\ ApplyExisting(a, cover_letter)
             /\ NeedsUpdate(apps[a], cover_letter)
             /\ apps[a].match_score = NULL)
                => /\ resp'.code = 201
                   /\ apps'[a].status = UpdateData(apps[a], cover_letter).status
                   /\ apps'[a].cover_letter = UpdateData(apps[a], cover_letter).cover_letter
                   /\ resp'.started \in FreeIds
                   /\ tasks'[resp'.started].list =
                        <<Entry(a, apps[a].cv_file_timestamp, NULL)>>]_vars

\* C5 as stated: a thread of the creation path that has ended with no call
\* raising, while the job row exists, has written final_score into the
\* application's match_score.
C5_CreationTaskWrites ==
    \A t \in TaskIds :
        (/\ tasks[t].origin = "create"
         /\ tasks[t].pc = "done"
         /\ ~tasks[t].raised
         /\ job.exists)
            => CreatedApp(t) \in tasks[t].wrote

\* what a creation thread that ended without an exception, with the job row
\* there, leaves: the score is non-null; the thread wrote the final_score of
\* its own call, or called nothing because the re-check found a score
CreationOutcome(t) ==
    (/\ tasks[t].origin = "create"
     /\ tasks[t].pc = "done"
     /\ ~tasks[t].raised
     /\ job.exists)
        => /\ apps[CreatedApp(t)].match_score # NULL
           /\ \/ /\ tasks[t].computed = {CreatedApp(t)}
                 /\ tasks[t].wrote = {CreatedApp(t)}
                 /\ tasks[t].written = Some(tasks[t].final_score)
              \/ /\ tasks[t].computed = {}
                 /\ tasks[t].wrote = {}

\* C5 amended: the insert of a new application (match_score null) answers 201
\* and starts one thread for it; no step of a thread changes the response;
\* the thread ends, and if the job row exists and nothing raised, either it
\* wrote the final_score of its call or its re-check found the score already
\* written by another thread: either way the score is non-null.
C5_CreationTaskScoresOrSkips ==
    /\ [][\A a \in AppIds :
            (~apps[a].exists /\ apps'[a].exists)
                => /\ apps'[a].match_score = NULL
                   /\ resp'.code = 201
                   /\ resp'.started \in TaskIds
                   /\ tasks'[resp'.started] =
                        NewTask("single", "create",
                                <<Entry(a, apps'[a].cv_file_timestamp, NULL)>>)]_vars
    /\ [][(\E t \in TaskIds : TaskStep(t)) => resp' = resp]_vars
    /\ \A t \in TaskIds : (tasks[t].origin = "create") ~> (tasks[t].pc = "done")
    /\ [](\A t \in TaskIds : CreationOutcome(t))

\* a creation thread has ended after writing the score of its call while the
\* job exists
C5_Witness ==
    \E t \in TaskIds :
        /\ tasks[t].origin = "create"
        /\ tasks[t].pc = "done"
        /\ ~tasks[t].raised
        /\ job.exists
        /\ tasks[t].wrote = {CreatedApp(t)}
        /\ apps[CreatedApp(t)].match_score = tasks[t].written

\* C9: a failure of store_match_result changes nothing in the outcome of
\* calculate_match_score (same state, same returned result as with a
\* successful store), the thread goes on to the write with that final_score,
\* and its write puts that final_score on the application.
C9_StoreFailureChangesNoOutcome ==
    [][\A t \in TaskIds :
        /\ \A ctor \in Ctors, agents \in TaskAgents :
              TaskCalc(t, ctor, agents, "fail") =>
                LET ok == calculate_match_score(TaskInput(t, ctor), agents, "ok")
                    failed == calculate_match_score(TaskInput(t, ctor), agents, "fail")
                IN  /\ failed.pc = ok.pc
                    /\ failed.returned = ok.returned
                    /\ ok.pc = "DONE" =>
                        /\ tasks'[t].pc = "write"
                        /\ tasks'[t].final_score = ok.returned.final_score
        /\ (/\ tasks[t].pc = "write"
            /\ tasks[t].call.store = "fail"
            /\ TaskWrite(t, "ok")
            /\ apps[Current(t).application_id].exists)
              => apps'[Current(t).application_id].match_score = Some(tasks[t].final_score)]_vars

\* a thread whose call met a failed store has ended after writing the score
C9_Witness ==
    \E t \in TaskIds :
        /\ tasks[t].kind = "single"
        /\ tasks[t].pc = "done"
        /\ tasks[t].call.store = "fail"
        /\ tasks[t].wrote = {CreatedApp(t)}
        /\ apps[CreatedApp(t)].match_score = Some(tasks[t].final_score)
        /\ tasks[t].final_score > 0

\* thread t has left its current entry: the single thread has ended, the
\* sweep has ended or turned to its next entry
EntryEnded(t) ==
    \/ tasks'[t].pc = "done"
    \/ /\ tasks[t].kind = "bulk"
       /\ tasks'[t].pc = "check"
       /\ tasks'[t].idx = tasks[t].idx + 1

\* a step of thread t in which a call raises
TaskRaises(t) ==
    \/ TaskClient(t, "raise")
    \/ TaskCheck(t, "raise")
    \/ TaskFetchJob(t, "raise")
    \/ TaskWrite(t, "raise")
    \/ \E ctor \in Ctors, agents \in TaskAgents, store \in StoreOutcomes :
          /\ TaskCalc(t, ctor, agents, store)
          /\ calculate_match_score(TaskInput(t, ctor), agents, store).pc = "RAISED"

\* C18: an exception raised in a thread (client creation, re-check, job fetch,
\* calculate_match_score, write) is caught there: the thread leaves its entry
\* and, but for the sweep going on, ends; the response, the applications and
\* the other threads are as before, so a score that was null stays null; a
\* missing job row ends the entry with no computation and no write; a single
\* thread that raised has written nothing, and a score is non-null only by
\* the completed write of a thread.
C18_FailuresAreContained ==
    /\ [][\A t \in TaskIds :
            /\ TaskRaises(t) =>
                  /\ EntryEnded(t)
                  /\ tasks'[t].raised
                  /\ tasks'[t].wrote = tasks[t].wrote
                  /\ apps' = apps /\ resp' = resp /\ job' = job
                  /\ \A u \in TaskIds \ {t} : tasks'[u] = tasks[u]
            /\ (TaskFetchJob(t, "ok") /\ ~job.exists) =>
                  /\ EntryEnded(t)
                  /\ tasks'[t].computed = tasks[t].computed
                  /\ tasks'[t].wrote = tasks[t].wrote
                  /\ apps' = apps /\ resp' = resp]_vars
    /\ [](\A t \in TaskIds :
            (tasks[t].kind = "single" /\ tasks[t].raised)
                => tasks[t].pc = "done" /\ tasks[t].wrote = {})
    /\ [](\A a \in AppIds :
            (apps[a].exists /\ apps[a].match_score # NULL)
                => \E t \in TaskIds : a \in tasks[t].wrote)

\* a creation thread has ended on an exception raised after its computation;
\* its application is there with a null score and the response is the 201 of
\* the request that started it
C18_Witness ==
    \E t \in TaskIds :
        /\ tasks[t].origin = "create"
        /\ tasks[t].pc = "done"
        /\ tasks[t].raised
        /\ tasks[t].computed = {CreatedApp(t)}
        /\ apps[CreatedApp(t)].exists
        /\ apps[CreatedApp(t)].match_score = NULL
        /\ resp.op = "apply_new" /\ resp.code = 201 /\ resp.started = t

\* thread t is about to write the score of a call that ended without a CV
WritesDegraded(t) ==
    /\ tasks[t].pc = "write"
    /\ tasks[t].call.pc = "FAILED_NO_CV"

\* the zero of the degraded result is written
C29_DegradedZeroWritten ==
    \A t \in TaskIds :
        (WritesDegraded(t) /\ TaskWrite(t, "ok") /\ apps[Current(t).application_id].exists)
            => apps'[Current(t).application_id].match_score = Some(0)

\* no request starts a thread for an application that holds a score of 0.0
C29_ZeroSkippedByTriggers ==
    \A a \in AppIds : \A t \in TaskIds :
        (/\ apps[a].exists /\ apps[a].match_score = Some(0)
         /\ tasks[t].kind = "free" /\ tasks'[t].kind # "free")
            => \A i \in DOMAIN tasks'[t].list : tasks'[t].list[i].application_id # a

\* a stored score of 0.0 stays as long as the application exists
C29_ZeroStays ==
    \A a \in AppIds :
        (apps[a].exists /\ apps[a].match_score = Some(0) /\ apps'[a].exists)
            => apps'[a].match_score = Some(0)

\* C29: when calculate_match_score returns the degraded no-CV result the
\* thread still writes match_score = 0.0; from then on every automatic
\* trigger (re-apply, recruiter sweep) skips the application, and its
\* match_score stays 0.0 even after the candidate uploads a CV.
C29_StickyZero ==
    [][C29_DegradedZeroWritten /\ C29_ZeroSkippedByTriggers /\ C29_ZeroStays]_vars

-----------------------------------------------------------------------------
(* The sweep over several pending applications: the state right after the  *)
(* recruiter listing started calculate_missing_scores, when SweepSize      *)
(* candidates have applied and none has a score yet (their creation        *)
(* threads ended on an exception, but for one that may not have run yet).  *)

\* Bound of the applications pending when the sweep starts
SweepSize == 2

SweepApps == 1..SweepSize

\* the row of candidate a, who applied as the a-th, with or without a CV
PendingRow(a, files) ==
    [exists |-> TRUE, status |-> "applied", match_score |-> NULL,
     cover_letter |-> "",
     cv_file_timestamp |->
        IF get_latest_cv_file_info(files, "none") = NULL THEN NULL
        ELSE get_latest_cv_file_info(files, "none").timestamp,
     applied_at |-> a]

\* no snapshot, or the one snapshot an upload stored
CVStores == {<<>>, <<[ts |-> Instant(1), updated_at |-> Instant(1), data |-> SampleCV]>>}

SweepInit ==
    /\ cvFiles \in [SweepApps -> CVStores]
    /\ apps = [a \in SweepApps |-> PendingRow(a, cvFiles[a])]
    /\ job = [exists |-> TRUE, status |-> "open"]
    /\ \E late \in SweepApps \cup {0} :
          tasks = [t \in TaskIds |->
                      IF t = 1 THEN NewTask("bulk", "sweep", applications_needing_scores)
                      ELSE IF t = 2 /\ late # 0
                      THEN NewTask("single", "create",
                                   <<Entry(late, apps[late].cv_file_timestamp, NULL)>>)
                      ELSE FreeTask]
    /\ resp = [op |-> "list", app |-> 0, code |-> 200, started |-> 1]

InitSweep ==
    /\ nf = NfIdle
    /\ FnIdle
    /\ oc = OcIdle
    /\ http = HttpIdle
    /\ SweepInit

NextSweep ==
    \/ DeleteJob
    \/ \E t \in TaskIds, step \in Steps : TaskClient(t, step)
    \/ \E t \in TaskIds, step \in Steps : TaskCheck(t, step)
    \/ \E t \in TaskIds, step \in Steps : TaskFetchJob(t, step)
    \/ \E t \in TaskIds, ctor \in Ctors, agents \in TaskAgents, store \in StoreOutcomes :
            TaskCalc(t, ctor, agents, store)
    \/ \E t \in TaskIds, step \in Steps : TaskWrite(t, step)

SpecSweep == InitSweep /\ [][NextSweep]_vars

Sweeps == {t \in TaskIds : tasks[t].kind = "bulk"}

\* the application ids of a work list, in list order
ListIds(list) == [i \in 1..Len(list) |-> list[i].application_id]

Counted(T) == T.processed + T.skipped + T.errors

\* the visits of a sweep are the first entries of its list, each once and in
\* list order, and all of them but the one under way have been counted once
VisitsInOrder(T) ==
    /\ T.visited = SubSeq(ListIds(T.list), 1, Len(T.visited))
    /\ Counted(T) = IF T.pc \in {"job", "calc", "write"}
                    THEN Len(T.visited) - 1 ELSE Len(T.visited)

\* C20: the sweep visits every application of its list exactly once, in list
\* order, whatever fails on the way; each visit increments exactly one of
\* processed, skipped, errors; at the end their sum is the length of the list.
C20_EveryPendingVisitedOnce ==
    \A t \in Sweeps :
        /\ VisitsInOrder(tasks[t])
        /\ tasks[t].pc = "done" =>
              /\ tasks[t].visited = ListIds(tasks[t].list)
              /\ Counted(tasks[t]) = Len(tasks[t].list)

\* C20 amended: the same for a sweep whose create_client call succeeded; one
\* whose create_client raised has ended with no visit and nothing counted.
C20_VisitedOnceUnlessClientFails ==
    \A t \in Sweeps :
        /\ VisitsInOrder(tasks[t])
        /\ (tasks[t].pc = "done" /\ ~tasks[t].aborted) =>
              /\ tasks[t].visited = ListIds(tasks[t].list)
              /\ Counted(tasks[t]) = Len(tasks[t].list)
        /\ tasks[t].aborted =>
              /\ tasks[t].pc = "done"
              /\ tasks[t].visited = <<>>
              /\ Counted(tasks[t]) = 0

\* a sweep over SweepSize applications has ended after an error on an earlier
\* application and a score written for the last one
C20_Witness ==
    \E t \in Sweeps :
        /\ tasks[t].pc = "done"
        /\ ~tasks[t].aborted
        /\ Len(tasks[t].list) = SweepSize
        /\ SweepSize >= 2
        /\ tasks[t].errors >= 1
        /\ tasks[t].wrote = {tasks[t].list[SweepSize].application_id}
        /\ tasks[t].processed = 1

-----------------------------------------------------------------------------
(* update_application_status (applications.py 619-672).  The client of     *)
(* every request is the singleton of db/supabase.py, created with the      *)
(* service-role key, for which the database applies no row-level policy.   *)

\* Bound of the recruiters
MaxRecruiters == 2

Recruiters == 1..MaxRecruiters

allowed_statuses ==
    {"applied", "reviewing", "shortlisted", "interview", "rejected", "hired"}

\* the status values a request may carry
StatusInputs == {"reviewing", "rejected", "hired", "unknown"}

\* the key get_supabase creates its client with (db/supabase.py 20-23)
ClientKey == "service_role"

\* the rows of applications an UPDATE ... WHERE id = application_id of
\* recruiter r reaches: row-level policies bind every key but service_role
RowsReached(r, application_id) ==
    {a \in DOMAIN apps :
        /\ a = application_id
        /\ apps[a].exists
        /\ (ClientKey = "service_role" \/ job.recruiter_profile_id = r)}

UpdateStatus(r, application_id, status) ==
    /\ IF status \notin allowed_statuses
       THEN /\ apps' = apps
            /\ resp' = [op |-> "status", app |-> application_id, code |-> 400, started |-> r]
       ELSE LET data == RowsReached(r, application_id)
            IN  /\ apps' = [a \in DOMAIN apps |->
                               IF a \in data THEN [apps[a] EXCEPT !.status = status]
                               ELSE apps[a]]
                /\ resp' = [op |-> "status", app |-> application_id,
                            code |-> IF data = {} THEN 404 ELSE 200, started |-> r]
    /\ UNCHANGED <<job, cvFiles, tasks, normVars, fnVars, calcVars>>

\* applications of candidates to one job, owned by one of the recruiters
StatusInit ==
    /\ cvFiles = [c \in SweepApps |-> <<>>]
    /\ apps \in [SweepApps -> {NoRow} \cup {PendingRow(a, <<>>) : a \in SweepApps}]
    /\ \A a \in SweepApps : apps[a].exists => apps[a].applied_at = a
    /\ \E owner \in Recruiters :
          job = [exists |-> TRUE, status |-> "open", recruiter_profile_id |-> owner]
    /\ tasks = [t \in TaskIds |-> FreeTask]
    /\ resp = NoResp

InitStatus ==
    /\ nf = NfIdle
    /\ FnIdle
    /\ oc = OcIdle
    /\ http = HttpIdle
    /\ StatusInit

NextStatus ==
    \/ \E r \in Recruiters, a \in SweepApps \cup {SweepSize + 1}, status \in StatusInputs :
            UpdateStatus(r, a, status)
    \/ \E a \in SweepApps : Withdraw(a)

SpecStatus == InitStatus /\ [][NextStatus]_vars

\* C22: a call of update_application_status by a recruiter who does not own
\* the job of the application leaves the status of the application as it is
\* and answers not found / not authorized.
C22_OnlyOwnerChangesStatus ==
    [][\A r \in Recruiters, a \in SweepApps, status \in StatusInputs :
            (UpdateStatus(r, a, status) /\ r # job.recruiter_profile_id)
                => /\ apps'[a].status = apps[a].status
                   /\ status \in allowed_statuses => resp'.code \in {403, 404}]_vars

-----------------------------------------------------------------------------
(* match_roles_to_csv_titles (ner_filter.py).                              *)
(* A Python str is a sequence of one-character strings, so that lower(),   *)
(* strip(), len() and the substring test `in` work on characters as they   *)
(* do in the code.  The spaCy pipeline nlp is an input of a call: a table  *)
(* from a token to its pos_ tag.                                           *)

Upper ==
    [b |-> "B", d |-> "D", e |-> "E", f |-> "F", j |-> "J", l |-> "L", s |-> "S"]

\* str.lower() on one character
LowerChar(c) ==
    IF \E l \in DOMAIN Upper : Upper[l] = c
    THEN CHOOSE l \in DOMAIN Upper : Upper[l] = c
    ELSE c

\* str.lower()
Lower(str) == [i \in 1..Len(str) |-> LowerChar(str[i])]

\* str.strip()
RECURSIVE Strip(_)
Strip(str) ==
    IF str = <<>> THEN str
    ELSE IF Head(str) = " " THEN Strip(Tail(str))
    ELSE IF str[Len(str)] = " " THEN Strip(SubSeq(str, 1, Len(str) - 1))
    ELSE str

\* needle in hay
Contains(hay, needle) ==
    \E i \in 0..(Len(hay) - Len(needle)) :
        SubSeq(hay, i + 1, i + Len(needle)) = needle

\* the token texts of nlp(str): str cut at its spaces
RECURSIVE Tokens(_)
Tokens(str) ==
    IF str = <<>> THEN <<>>
    ELSE IF Head(str) = " " THEN Tokens(Tail(str))
    ELSE LET n == CHOOSE k \in 1..Len(str) :
                      /\ \A i \in 1..k : str[i] # " "
                      /\ (k = Len(str) \/ str[k + 1] = " ")
         IN  <<SubSeq(str, 1, n)>> \o Tokens(SubSeq(str, n + 1, Len(str)))

\* the words of the inputs, spelled out
Spell ==
    [engineer   |-> <<"e", "n", "g", "i", "n", "e", "e", "r">>,
     developer  |-> <<"d", "e", "v", "e", "l", "o", "p", "e", "r">>,
     senior     |-> <<"s", "e", "n", "i", "o", "r">>,
     lead       |-> <<"l", "e", "a", "d">>,
     staff      |-> <<"s", "t", "a", "f", "f">>,
     backend    |-> <<"b", "a", "c", "k", "e", "n", "d">>,
     frontend   |-> <<"f", "r", "o", "n", "t", "e", "n", "d">>,
     data       |-> <<"d", "a", "t", "a">>,
     java       |-> <<"j", "a", "v", "a">>,
     javascript |-> <<"j", "a", "v", "a", "s", "c", "r", "i", "p", "t">>]

\* str.title() of one word: its first letter in upper case
Capital(word) == <<Upper[Head(word)]>> \o Tail(word)

\* ' '.join(words)
RECURSIVE Join(_)
Join(words) ==
    IF words = <<>> THEN <<>>
    ELSE IF Len(words) = 1 THEN words[1]
    ELSE words[1] \o <<" ">> \o Join(Tail(words))

\* a phrase in lower case, and the same phrase in title case
Phrase(names) == Join([i \in 1..Len(names) |-> Spell[names[i]]])
TitleCase(names) == Join([i \in 1..Len(names) |-> Capital(Spell[names[i]])])

common_words ==
    {Spell.engineer, Spell.developer, Spell.senior, Spell.lead, Spell.staff}

\* token.pos_ in ['NOUN', 'PROPN', 'ADJ'] and len(token.text) > 2
Significant(pos, token) == pos[token] \in {"NOUN", "PROPN", "ADJ"} /\ Len(token) > 2

\* the significant words of nlp(str), in order
SignificantWords(pos, str) ==
    SelectSeq(Tokens(str), LAMBDA token : Significant(pos, token))

ToSet(seq) == {seq[i] : i \in 1..Len(seq)}

\* list.index(w): the first position of w, counted from 0
IndexOf(seq, w) == (CHOOSE i \in 1..Len(seq) : seq[i] = w /\ \A j \in 1..(i - 1) : seq[j] # w) - 1

\* a score is the exact rational num / den, den > 0
Rat(num, den) == [num |-> num, den |-> den]
Greater(a, b) == a.num * b.den > b.num * a.den
AtLeast(a, n) == a.num >= n * a.den
Max(a, b) == IF a > b THEN a ELSE b

Threshold == 40

NoBest == [best_match |-> NULL, best_score |-> Rat(0, 1)]

\* role_positions == sorted(role_positions)
InOrder(role_word_list, title_word_list) ==
    \A i, j \in 1..Len(role_word_list) :
        i < j => IndexOf(title_word_list, role_word_list[i])
                    <= IndexOf(title_word_list, role_word_list[j])

\* the score of a title under the specific-word rule (lines 138-158)
SpecificScore(all_role_words, specific_role_words, all_title_words, specific_title_words) ==
    LET order_score ==
            IF Len(specific_role_words) >= 2
               /\ InOrder(specific_role_words, specific_title_words)
            THEN 20 ELSE 0
        overlap == Cardinality(ToSet(specific_role_words))
        title_size == Max(Cardinality(ToSet(specific_title_words)), 1)
        role_len == Max(Len(all_role_words), 1)
        longer == Max(0, Len(all_title_words) - Len(all_role_words))
    IN  Rat(60 * overlap * role_len + order_score * title_size * role_len
                - 10 * longer * title_size,
            title_size * role_len)

\* the body of `for title in csv_titles` without the subset test of line 135
TitleStepNoSubset(best, title, role_lower, pos) ==
    LET title_lower == Lower(title)
        all_role_words == SignificantWords(pos, role_lower)
        specific_role_words == SelectSeq(all_role_words, LAMBDA w : w \notin common_words)
        all_title_words == SignificantWords(pos, title_lower)
        specific_title_words == SelectSeq(all_title_words, LAMBDA w : w \notin common_words)
        score == SpecificScore(all_role_words, specific_role_words,
                               all_title_words, specific_title_words)
    IN  IF Contains(title_lower, role_lower)
        THEN LET s == Rat(100 - (Len(title_lower) - Len(role_lower)), 1)
             IN  IF Greater(s, best.best_score)
                 THEN [best_match |-> Some(title), best_score |-> s]
                 ELSE best
        ELSE IF Greater(score, best.best_score) /\ AtLeast(score, Threshold)
             THEN [best_match |-> Some(title), best_score |-> score]
             ELSE best

\* the body of `for title in csv_titles` (lines 109-172)
TitleStep(best, title, role_lower, pos) ==
    LET title_lower == Lower(title)
        all_role_words == SignificantWords(pos, role_lower)
        specific_role_words == SelectSeq(all_role_words, LAMBDA w : w \notin common_words)
        common_role_words == SelectSeq(all_role_words, LAMBDA w : w \in common_words)
        all_title_words == SignificantWords(pos, title_lower)
        specific_title_words == SelectSeq(all_title_words, LAMBDA w : w \notin common_words)
        common_title_words == SelectSeq(all_title_words, LAMBDA w : w \in common_words)
    IN  IF Contains(title_lower, role_lower)
        THEN LET score == Rat(100 - (Len(title_lower) - Len(role_lower)), 1)
             IN  IF Greater(score, best.best_score)
                 THEN [best_match |-> Some(title), best_score |-> score]
                 ELSE best
        ELSE IF specific_role_words # <<>>
        THEN IF ~(ToSet(specific_role_words) \subseteq ToSet(specific_title_words))
             THEN best
             ELSE LET score == SpecificScore(all_role_words, specific_role_words,
                                             all_title_words, specific_title_words)
                  IN  IF Greater(score, best.best_score) /\ AtLeast(score, Threshold)
                      THEN [best_match |-> Some(title), best_score |-> score]
                      ELSE best
        ELSE IF Len(common_role_words) >= 2
        THEN LET common_overlap ==
                     Cardinality(ToSet(common_role_words) \cap ToSet(common_title_words))
                 score == Rat(common_overlap * 15, 1)
             IN  IF common_overlap >= 2 /\ Greater(score, best.best_score)
                 THEN [best_match |-> Some(title), best_score |-> score]
                 ELSE best
        ELSE best

\* the loop keeps the last title that scores, not the best one
RECURSIVE BestTitleLastWins(_, _, _, _)
BestTitleLastWins(best, order, role_lower, pos) ==
    IF order = <<>> THEN best
    ELSE LET alone == TitleStep(NoBest, Head(order), role_lower, pos)
         IN  BestTitleLastWins(IF alone.best_match # NULL THEN alone ELSE best,
                               Tail(order), role_lower, pos)

\* the loop over csv_titles, in the order the set yields its elements
RECURSIVE BestTitle(_, _, _, _)
BestTitle(best, order, role_lower, pos) ==
    IF order = <<>> THEN best
    ELSE BestTitle(TitleStep(best, Head(order), role_lower, pos),
                   Tail(order), role_lower, pos)

AppendNew(matched_titles, title) ==
    IF title \in ToSet(matched_titles) THEN matched_titles
    ELSE Append(matched_titles, title)

\* the best title is accepted whatever its score (no test at line 175)
RoleStepNoThreshold(matched_titles, role, order, pos) ==
    LET role_lower == Strip(Lower(role))
        csv_titles == ToSet(order)
        all_role_words == SignificantWords(pos, role_lower)
        specific_role_words == SelectSeq(all_role_words, LAMBDA w : w \notin common_words)
        common_role_words == SelectSeq(all_role_words, LAMBDA w : w \in common_words)
        best == BestTitle(NoBest, order, role_lower, pos)
    IN  IF role = <<>> THEN matched_titles
        ELSE IF role_lower \in csv_titles THEN AppendNew(matched_titles, role_lower)
        ELSE IF specific_role_words = <<>> /\ Len(common_role_words) < 2
        THEN matched_titles
        ELSE IF best.best_match # NULL /\ best.best_match # Some(<<>>)
        THEN AppendNew(matched_titles, best.best_match[1])
        ELSE matched_titles

\* the body of `for role in roles` (lines 79-177)
RoleStep(matched_titles, role, order, pos) ==
    LET role_lower == Strip(Lower(role))
        csv_titles == ToSet(order)
        all_role_words == SignificantWords(pos, role_lower)
        specific_role_words == SelectSeq(all_role_words, LAMBDA w : w \notin common_words)
        common_role_words == SelectSeq(all_role_words, LAMBDA w : w \in common_words)
        best == BestTitle(NoBest, order, role_lower, pos)
    IN  IF role = <<>> THEN matched_titles
        ELSE IF role_lower \in csv_titles THEN AppendNew(matched_titles, role_lower)
        ELSE IF specific_role_words = <<>> /\ Len(common_role_words) < 2
        THEN matched_titles
        ELSE IF best.best_match # NULL /\ best.best_match # Some(<<>>)
                /\ AtLeast(best.best_score, Threshold)
        THEN AppendNew(matched_titles, best.best_match[1])
        ELSE matched_titles

RECURSIVE MatchFrom(_, _, _, _)
MatchFrom(matched_titles, roles, order, pos) ==
    IF roles = <<>> THEN matched_titles
    ELSE MatchFrom(RoleStep(matched_titles, Head(roles), order, pos),
                   Tail(roles), order, pos)

\* match_roles_to_csv_titles(roles, csv_titles) with nlp = pos; order is
\* csv_titles in the iteration order of the set
match_roles_to_csv_titles(roles, order, pos) == MatchFrom(<<>>, roles, order, pos)

\* Bounds of the inputs tried on match_roles_to_csv_titles
MaxRoles == 2
MaxTitles == 3

\* the tag of each word of the inputs
Lexicon ==
    [w \in {Spell[n] : n \in DOMAIN Spell} |->
        IF w = Spell.senior THEN "ADJ"
        ELSE IF w \in {Spell.java, Spell.javascript} THEN "PROPN"
        ELSE "NOUN"]

\* words the tagger may also take for a verb
NounOrVerb == {Spell.lead}

\* the taggers a call may run with
Taggers ==
    {[w \in DOMAIN Lexicon |-> IF w \in V THEN "VERB" ELSE Lexicon[w]] :
        V \in SUBSET NounOrVerb}

SeniorBackendEngineer == TitleCase(<<"senior", "backend", "engineer">>)

RoleStrings ==
    {<<>>,
     TitleCase(<<"engineer">>),
     SeniorBackendEngineer,
     TitleCase(<<"frontend", "developer">>),
     TitleCase(<<"senior", "lead", "engineer">>),
     Phrase(<<"data", "engineer">>),
     Phrase(<<"java">>)}

ScenarioC ==
    {Phrase(<<"backend", "engineer">>),
     Phrase(<<"frontend", "engineer">>),
     Phrase(<<"data", "engineer">>)}

TitleStrings ==
    ScenarioC \cup
    {TitleCase(<<"engineer">>),
     TitleCase(<<"backend", "developer">>),
     Phrase(<<"javascript", "developer">>),
     Phrase(<<"senior", "staff", "lead", "engineer">>),
     Phrase(<<"senior", "frontend", "developer">>)}

RoleLists == UNION {[1..n -> RoleStrings] : n \in 1..MaxRoles}
Vocabularies == {T \in SUBSET TitleStrings : Cardinality(T) <= MaxTitles}

\* the orders in which iterating the set S may yield its elements
Orders(S) == {order \in [1..Cardinality(S) -> S] : ToSet(order) = S}

RmInit ==
    \E roles \in RoleLists, csv_titles \in Vocabularies, pos \in Taggers :
        rm = [pc |-> "call", roles |-> roles, csv_titles |-> csv_titles,
              pos |-> pos, by_role |-> <<>>, result |-> <<>>]

\* one call; by_role[i] is what the call made of roles[i] alone
RmCall ==
    /\ rm.pc = "call"
    /\ \E order \in Orders(rm.csv_titles) :
        rm' = [rm EXCEPT
                 !.pc = "return",
                 !.by_role = [i \in 1..Len(rm.roles) |->
                                 RoleStep(<<>>, rm.roles[i], order, rm.pos)],
                 !.result = match_roles_to_csv_titles(rm.roles, order, rm.pos)]
    /\ UNCHANGED <<normVars, calcVars, appVars, sk, rt, gp>>

InitRoles ==
    /\ nf = NfIdle
    /\ oc = OcIdle
    /\ http = HttpIdle
    /\ AppIdle
    /\ RmInit
    /\ sk = [pc |-> "idle"]
    /\ rt = [pc |-> "idle"]
    /\ gp = [pc |-> "idle"]

NextRoles == RmCall

SpecRoles == InitRoles /\ [][NextRoles]_vars

\* the specific words of a string under the tagger of the call
SpecificWords(pos, str) ==
    {w \in ToSet(SignificantWords(pos, Lower(str))) : w \notin common_words}

\* C15: a role that equals a vocabulary title case-insensitively has that title
\* in the returned list, whatever its words are tagged and whatever the other
\* titles are.
C15_ExactMatchReturned ==
    rm.pc = "return" =>
        \A i \in 1..Len(rm.roles) : \A title \in rm.csv_titles :
            (rm.roles[i] # <<>> /\ Lower(rm.roles[i]) = Lower(title))
                => title \in ToSet(rm.result)

\* C16: a role with a specific word that is not among a title's specific words
\* is never matched to that title, by any rule.
C16_HardSubsetInvariant ==
    rm.pc = "return" =>
        \A i \in 1..Len(rm.roles) : \A title \in rm.csv_titles :
            ~(SpecificWords(rm.pos, rm.roles[i]) \subseteq SpecificWords(rm.pos, title))
                => title \notin ToSet(rm.by_role[i])

\* C17: ['Senior Backend Engineer'] against {'backend engineer',
\* 'frontend engineer', 'data engineer'} returns exactly ['backend engineer'],
\* in every iteration order of the set.
C17_ScenarioC ==
    (rm.pc = "return" /\ rm.roles = <<SeniorBackendEngineer>> /\ rm.csv_titles = ScenarioC)
        => rm.result = <<Phrase(<<"backend", "engineer">>)>>

C17_Witness ==
    /\ rm.pc = "return"
    /\ rm.roles = <<SeniorBackendEngineer>>
    /\ rm.csv_titles = ScenarioC
    /\ rm.result = <<Phrase(<<"backend", "engineer">>)>>

\* roles[i] is not empty and is not a vocabulary title as it stands
NonExact(i) ==
    /\ rm.roles[i] # <<>>
    /\ Strip(Lower(rm.roles[i])) \notin rm.csv_titles

\* the score the loop body gives one title for roles[i]; 0 when the title is
\* no candidate
CandidateScore(i, title) ==
    TitleStep(NoBest, title, Strip(Lower(rm.roles[i])), rm.pos).best_score

\* C25: for each non-exact role at most one title is accepted, it is a
\* highest-scoring candidate, and its score is at least 40.0; the returned
\* list has no duplicates and at most one title per input role.
C25_OneBestTitlePerRole ==
    rm.pc = "return" =>
        /\ \A i \in 1..Len(rm.roles) :
            /\ Len(rm.by_role[i]) <= 1
            /\ (NonExact(i) /\ rm.by_role[i] # <<>>) =>
                    LET title == rm.by_role[i][1]
                    IN  /\ title \in rm.csv_titles
                        /\ AtLeast(CandidateScore(i, title), Threshold)
                        /\ \A other \in rm.csv_titles :
                              ~Greater(CandidateScore(i, other), CandidateScore(i, title))
        /\ \A j, k \in 1..Len(rm.result) : j # k => rm.result[j] # rm.result[k]
        /\ Len(rm.result) <= Len(rm.roles)
        /\ ToSet(rm.result) = UNION {ToSet(rm.by_role[i]) : i \in 1..Len(rm.roles)}

\* a call with a non-exact role that has two candidates of different scores,
\* both at least 40, and with two roles accepted for the same title
C25_Witness ==
    /\ rm.pc = "return"
    /\ Len(rm.roles) = 2
    /\ Len(rm.result) = 1
    /\ \A i \in 1..2 : NonExact(i) /\ rm.by_role[i] = rm.result
    /\ \E other \in rm.csv_titles :
            /\ AtLeast(CandidateScore(1, other), Threshold)
            /\ Greater(CandidateScore(1, rm.result[1]), CandidateScore(1, other))


\* the common words of a string under the tagger of the call
CommonWords(pos, str) ==
    {w \in ToSet(SignificantWords(pos, Lower(str))) : w \in common_words}

\* C30: a role without specific words that is not a vocabulary title is
\* matched to a title only when the title contains the role as a substring or
\* shares at least three common words with it; an overlap of exactly two
\* common words scores 30, below the threshold of 40.
C30_CommonRuleNeedsThreeWords ==
    rm.pc = "return" =>
        \A i \in 1..Len(rm.roles) : \A title \in ToSet(rm.by_role[i]) :
            (NonExact(i) /\ SpecificWords(rm.pos, Strip(Lower(rm.roles[i]))) = {})
                => \/ Contains(Lower(title), Strip(Lower(rm.roles[i])))
                   \/ Cardinality(CommonWords(rm.pos, rm.roles[i])
                                    \cap CommonWords(rm.pos, title)) >= 3

\* 'Senior Lead Engineer' matched to 'senior staff lead engineer', which does
\* not contain it, by three shared common words
C30_Witness ==
    /\ rm.pc = "return"
    /\ \E i \in 1..Len(rm.roles) :
        /\ NonExact(i)
        /\ SpecificWords(rm.pos, rm.roles[i]) = {}
        /\ rm.by_role[i] # <<>>
        /\ ~Contains(Lower(rm.by_role[i][1]), Strip(Lower(rm.roles[i])))
        /\ Cardinality(CommonWords(rm.pos, rm.roles[i])
                         \cap CommonWords(rm.pos, rm.by_role[i][1])) = 3


-----------------------------------------------------------------------------
(* calculate_skills_match_score (match_service.py).                        *)
(* The job-skill vocabulary (job_skill_db) and compute_skill_weights are   *)
(* modelled from section 4.1 of the specification: a read-only table from  *)
(* canonical titles to skills, and an external weighting function that     *)
(* gives each skill of the target set a non-negative importance weight,    *)
(* in thousandths, whose sum need not be 1.                                *)

\* Bound of the skills tried
MaxSkills == 3

SkillOrder == <<"python", "sql", "react", "docker">>
SkillNames == {SkillOrder[i] : i \in 1..MaxSkills}

\* job_skill_db: the skills of each vocabulary title
JobSkillDB ==
    [title \in ScenarioC |->
        IF title = Phrase(<<"backend", "engineer">>) THEN {"python", "sql"}
        ELSE IF title = Phrase(<<"frontend", "engineer">>) THEN {"react"}
        ELSE {}]

get_all_job_titles == DOMAIN JobSkillDB

get_skills_for_job_positions(titles) ==
    UNION {JobSkillDB[titles[i]] : i \in 1..Len(titles)}

\* the weights compute_skill_weights may give the skills of a target set
SkillWeightGrid == {0, (3 * ScoreUnit) \div 10, (6 * ScoreUnit) \div 10}
compute_skill_weights(skills) == [skills -> SkillWeightGrid]

Min(a, b) == IF a < b THEN a ELSE b

\* the skill set the score is computed against (lines 130-155)
TargetSkills(cv_data, matched_roles) ==
    IF matched_roles # <<>>
    THEN get_skills_for_job_positions(matched_roles)
    ELSE cv_data.skills_analysis.job_related_skills

\* the sum of the matched weights returned without min(1.0, ...)
calculate_skills_match_score_uncapped(cv_data, matched_roles, skill_weights) ==
    LET explicit_skills == cv_data.skills_analysis.explicit_skills
        target == TargetSkills(cv_data, matched_roles)
        matched_skills == explicit_skills \cap target
    IN  [match_score |-> SumOver([s \in matched_skills |-> Get(skill_weights, s, 0)],
                                 matched_skills),
         matched_skills |-> matched_skills,
         total_cv_skills |-> Cardinality(explicit_skills),
         total_job_skills |-> Cardinality(target)]

\* the capped sum shared out over the skills of the CV
calculate_skills_match_score_per_cv_skill(cv_data, matched_roles, skill_weights) ==
    LET explicit_skills == cv_data.skills_analysis.explicit_skills
        target == TargetSkills(cv_data, matched_roles)
        matched_skills == explicit_skills \cap target
        sum == SumOver([s \in matched_skills |-> Get(skill_weights, s, 0)], matched_skills)
    IN  [match_score |-> RoundDiv(Min(ScoreUnit, sum), Max(Cardinality(explicit_skills), 1)),
         matched_skills |-> matched_skills,
         total_cv_skills |-> Cardinality(explicit_skills),
         total_job_skills |-> Cardinality(target)]

\* job_related_skills joins the target set even when a title was resolved
calculate_skills_match_score_with_job_related(cv_data, matched_roles, skill_weights) ==
    LET explicit_skills == cv_data.skills_analysis.explicit_skills
        target == get_skills_for_job_positions(matched_roles)
                    \cup cv_data.skills_analysis.job_related_skills
        matched_skills == explicit_skills \cap target
    IN  [match_score |->
            Min(ScoreUnit,
                SumOver([s \in matched_skills |-> Get(skill_weights, s, ScoreUnit)],
                        matched_skills)),
         matched_skills |-> matched_skills,
         total_cv_skills |-> Cardinality(explicit_skills),
         total_job_skills |-> Cardinality(target)]

\* lines 130-163, after matched_roles is known; skill_weights is what
\* compute_skill_weights returned for the target set
calculate_skills_match_score(cv_data, matched_roles, skill_weights) ==
    LET explicit_skills == cv_data.skills_analysis.explicit_skills
        job_related_skills == cv_data.skills_analysis.job_related_skills
        position_skills == get_skills_for_job_positions(matched_roles)
        Weighted(matched_skills) ==
            Min(ScoreUnit,
                SumOver([s \in matched_skills |-> Get(skill_weights, s, 0)], matched_skills))
    IN  IF matched_roles # <<>>
        THEN LET matched_skills == explicit_skills \cap position_skills
             IN  [match_score |-> IF position_skills # {} THEN Weighted(matched_skills) ELSE 0,
                  matched_skills |-> matched_skills,
                  total_cv_skills |-> Cardinality(explicit_skills),
                  total_job_skills |-> Cardinality(position_skills)]
        ELSE IF job_related_skills # {}
        THEN LET matched_skills == explicit_skills \cap job_related_skills
             IN  [match_score |-> Weighted(matched_skills),
                  matched_skills |-> matched_skills,
                  total_cv_skills |-> Cardinality(explicit_skills),
                  total_job_skills |-> Cardinality(job_related_skills)]
        ELSE [match_score |-> 0,
              matched_skills |-> {},
              total_cv_skills |-> Cardinality(explicit_skills),
              total_job_skills |-> Cardinality(job_related_skills)]

JobPositions ==
    {SeniorBackendEngineer,
     TitleCase(<<"frontend", "developer">>),
     Phrase(<<"data", "engineer">>),
     Phrase(<<"java">>)}

SkillsAnalysis(explicit_skills, job_related_skills) ==
    [skills_analysis |-> [explicit_skills |-> explicit_skills,
                          job_related_skills |-> job_related_skills]]

\* a CV, the same CV with explicit skills added, and a job position
SkInit ==
    \E more \in SUBSET SkillNames, job_related_skills \in SUBSET SkillNames,
       job_position \in JobPositions :
      \E explicit_skills \in SUBSET more :
        sk = [pc |-> "call",
              cv_data |-> SkillsAnalysis(explicit_skills, job_related_skills),
              cv_more |-> SkillsAnalysis(more, job_related_skills),
              job_position |-> job_position,
              matched_roles |-> <<>>, skill_weights |-> <<>>,
              result |-> NULL, result_more |-> NULL]

\* lines 126-128: the job position is resolved to vocabulary titles
SkMatch ==
    /\ sk.pc = "call"
    /\ \E order \in Orders(get_all_job_titles), pos \in Taggers :
        sk' = [sk EXCEPT
                 !.pc = "matched",
                 !.matched_roles =
                     match_roles_to_csv_titles(<<sk.job_position>>, order, pos)]
    /\ UNCHANGED <<normVars, calcVars, appVars, rm, rt, gp>>

\* lines 130-163, for cv_data and for cv_more with the same weights
SkScore ==
    /\ sk.pc = "matched"
    /\ \E skill_weights \in
            compute_skill_weights(TargetSkills(sk.cv_data, sk.matched_roles)) :
        sk' = [sk EXCEPT
                 !.pc = "return",
                 !.skill_weights = skill_weights,
                 !.result = calculate_skills_match_score(
                                sk.cv_data, sk.matched_roles, skill_weights),
                 !.result_more = calculate_skills_match_score(
                                sk.cv_more, sk.matched_roles, skill_weights)]
    /\ UNCHANGED <<normVars, calcVars, appVars, rm, rt, gp>>

InitSkills ==
    /\ nf = NfIdle
    /\ oc = OcIdle
    /\ http = HttpIdle
    /\ AppIdle
    /\ SkInit
    /\ rm = [pc |-> "idle"]
    /\ rt = [pc |-> "idle"]
    /\ gp = [pc |-> "idle"]

NextSkills == SkMatch \/ SkScore

SpecSkills == InitSkills /\ [][NextSkills]_vars

\* C13: matched_skills is a subset of the CV's explicit skills intersected
\* with the target skill set, and match_score is at most 1.0.
C13_MatchedSubsetAndCapped ==
    sk.pc = "return" =>
        /\ sk.result.matched_skills \subseteq
              sk.cv_data.skills_analysis.explicit_skills
                \cap TargetSkills(sk.cv_data, sk.matched_roles)
        /\ sk.result.match_score <= ScoreUnit

\* a call in which the matched weights add up to more than 1.0
C13_Witness ==
    /\ sk.pc = "return"
    /\ sk.result.matched_skills # {}
    /\ SumOver(sk.skill_weights, sk.result.matched_skills) > ScoreUnit
    /\ sk.result.match_score = ScoreUnit

\* C14: with the target set and the weights fixed, a CV whose explicit skills
\* include those of another scores at least as much.
C14_Monotone ==
    sk.pc = "return" => sk.result.match_score <= sk.result_more.match_score

\* a call in which the added skills raise the score
C14_Witness ==
    /\ sk.pc = "return"
    /\ sk.cv_data.skills_analysis.explicit_skills
          # sk.cv_more.skills_analysis.explicit_skills
    /\ sk.result.match_score > 0
    /\ sk.result.match_score < sk.result_more.match_score

\* C24: when the job position resolved to one or more vocabulary titles the
\* target set is the union of the vocabulary skills of those titles and
\* job_related_skills is not used; otherwise the target set is
\* job_related_skills.  matched_skills is the explicit skills within the
\* target set, and match_score is 0.0 with empty matched_skills whenever
\* explicit_skills is empty or the target set is empty.
C24_TargetSetSelection ==
    sk.pc = "return" =>
        LET explicit_skills == sk.cv_data.skills_analysis.explicit_skills
            target ==
                IF sk.matched_roles # <<>>
                THEN UNION {JobSkillDB[sk.matched_roles[i]] :
                                i \in 1..Len(sk.matched_roles)}
                ELSE sk.cv_data.skills_analysis.job_related_skills
        IN  /\ sk.result.matched_skills = explicit_skills \cap target
            /\ sk.result.total_job_skills = Cardinality(target)
            /\ (explicit_skills = {} \/ target = {}) =>
                    /\ sk.result.match_score = 0
                    /\ sk.result.matched_skills = {}

\* a call with a resolved title in which an explicit skill that is among
\* job_related_skills but not among the skills of the title stays unmatched
C24_Witness ==
    /\ sk.pc = "return"
    /\ sk.matched_roles # <<>>
    /\ sk.result.match_score > 0
    /\ \E s \in sk.cv_data.skills_analysis.explicit_skills
                  \cap sk.cv_data.skills_analysis.job_related_skills :
            /\ s \notin get_skills_for_job_positions(sk.matched_roles)
            /\ s \notin sk.result.matched_skills


-----------------------------------------------------------------------------
(* retry_supabase_operation (utils/retry.py): one call of the wrapper.     *)
(* Delays are in milliseconds.  calls is the history of the outcomes of    *)
(* the invocations of the wrapped function, slept that of the delays.      *)

RETRYABLE_EXCEPTIONS ==
    {"RemoteProtocolError", "ConnectError", "TimeoutException",
     "ConnectionError", "OSError"}

\* exceptions of the wrapped function that are no connection errors
SemanticExceptions == {"ValueError", "HTTPException"}

\* Bound of max_retries
MaxRetries == 3

InitialDelays == {500, 1000}
BackoffFactors == {1, 2}

\* except clauses are tried in order: every exception is taken by the first
RetryableAlways(exc, retryable_exceptions) == TRUE

\* except retryable_exceptions as e (line 48)
Retryable(exc, retryable_exceptions) == exc \in retryable_exceptions

RtInit ==
    \E max_retries \in (0 - 1)..MaxRetries, initial_delay \in InitialDelays,
       backoff_factor \in BackoffFactors :
        rt = [pc |-> "loop",
              max_retries |-> max_retries,
              initial_delay |-> initial_delay,
              backoff_factor |-> backoff_factor,
              attempt |-> 0,
              delay |-> initial_delay,
              last_exception |-> NoExc,
              calls |-> <<>>,
              slept |-> <<>>,
              raised |-> NoExc]

\* lines 45-64: one pass of the loop body up to the sleep
RtInvoke ==
    /\ rt.pc = "loop"
    /\ rt.attempt <= rt.max_retries
    /\ \E outcome \in {"ok"} \cup RETRYABLE_EXCEPTIONS \cup SemanticExceptions :
        rt' = IF outcome = "ok"
              THEN [rt EXCEPT !.pc = "returned", !.calls = Append(@, outcome)]
              ELSE IF Retryable(outcome, RETRYABLE_EXCEPTIONS)
              THEN IF rt.attempt < rt.max_retries
                   THEN [rt EXCEPT !.pc = "sleep",
                                   !.last_exception = outcome,
                                   !.calls = Append(@, outcome)]
                   ELSE [rt EXCEPT !.attempt = @ + 1,
                                   !.last_exception = outcome,
                                   !.calls = Append(@, outcome)]
              ELSE [rt EXCEPT !.pc = "raised",
                              !.raised = outcome,
                              !.calls = Append(@, outcome)]
    /\ UNCHANGED <<normVars, calcVars, appVars, sk, rm, gp>>

\* lines 55-56: time.sleep(delay); delay *= backoff_factor; next pass
RtSleep ==
    /\ rt.pc = "sleep"
    /\ rt' = [rt EXCEPT !.pc = "loop",
                        !.slept = Append(@, rt.delay),
                        !.delay = @ * rt.backoff_factor,
                        !.attempt = @ + 1]
    /\ UNCHANGED <<normVars, calcVars, appVars, sk, rm, gp>>

\* lines 66-71: the loop is over
RtAfterLoop ==
    /\ rt.pc = "loop"
    /\ rt.attempt > rt.max_retries
    /\ rt' = [rt EXCEPT !.pc = "raised",
                        !.raised = IF rt.last_exception # NoExc
                                   THEN rt.last_exception
                                   ELSE "RuntimeError"]
    /\ UNCHANGED <<normVars, calcVars, appVars, sk, rm, gp>>

InitRetry ==
    /\ nf = NfIdle
    /\ oc = OcIdle
    /\ http = HttpIdle
    /\ AppIdle
    /\ sk = [pc |-> "idle"]
    /\ rm = [pc |-> "idle"]
    /\ gp = [pc |-> "idle"]
    /\ RtInit

NextRetry == RtInvoke \/ RtSleep \/ RtAfterLoop

SpecRetry == InitRetry /\ [][NextRetry]_vars

\* the wrapped function returns or raises, and a sleep ends
FairSpecRetry == SpecRetry /\ WF_vars(NextRetry)

RECURSIVE Pow(_, _)
Pow(b, e) == IF e = 0 THEN 1 ELSE b * Pow(b, e - 1)

RtDone == rt.pc \in {"returned", "raised"}

\* what holds of every state of a call with max_retries = n
RetryBounded ==
    /\ Len(rt.calls) <= Max(rt.max_retries + 1, 0)
    /\ \A i \in 1..(Len(rt.calls) - 1) : rt.calls[i] \in RETRYABLE_EXCEPTIONS
    /\ Len(rt.slept) <= Len(rt.calls)
    /\ \A k \in 1..Len(rt.slept) :
          rt.slept[k] = rt.initial_delay * Pow(rt.backoff_factor, k - 1)
    /\ rt.pc = "loop" /\ rt.attempt <= rt.max_retries => Len(rt.slept) = Len(rt.calls)
    /\ RtDone /\ rt.calls # <<>> =>
          LET last == rt.calls[Len(rt.calls)]
          IN  /\ Len(rt.slept) = Len(rt.calls) - 1
              /\ last = "ok" <=> rt.pc = "returned"
              /\ last # "ok" => rt.raised = last
              /\ last \in RETRYABLE_EXCEPTIONS => Len(rt.calls) = rt.max_retries + 1

\* C19: at most n+1 invocations; a further invocation only after a retryable
\* exception and after a sleep of initial_delay * backoff_factor^(k-1); any
\* other exception is raised at once; success returns at once; after n+1
\* retryable failures the last one is raised; the wrapper always terminates.
C19_BoundedRetry == []RetryBounded /\ <>RtDone

\* a call that slept twice with growing delays and then raised the last
\* connection error
C19_Witness ==
    /\ rt.pc = "raised"
    /\ rt.max_retries >= 2
    /\ Len(rt.calls) = rt.max_retries + 1
    /\ Len(rt.slept) = rt.max_retries
    /\ rt.slept[2] > rt.slept[1]
    /\ rt.raised = rt.calls[Len(rt.calls)]
    /\ rt.raised # rt.calls[1]

-----------------------------------------------------------------------------
(* get_parsed_cv (storage_service.py), one storage request per step, as    *)
(* calculate_match_score calls it.  list_faults and download_faults are    *)
(* the numbers of consecutive connection errors the listing and the        *)
(* download meet before the store answers.                                 *)

\* Bound: snapshots of the candidate
MaxSnapshots == 2

\* max_retries of _list_storage_files and _download_storage_file
StorageRetries == 3

\* the snapshot named Instant(k): its name timestamp, what the listing
\* reports as updated_at (NULL when it reports none), and its content
Snapshot(k, updated_at) ==
    [ts |-> Instant(k), updated_at |-> updated_at,
     data |-> [identity |-> "cv", snapshot |-> k]]

ReportedTimes == {NULL} \cup {Instant(k) : k \in 1..(MaxSnapshots + 1)}

\* the listings of n snapshots with distinct names, in any order
SnapshotLists ==
    UNION {{[i \in 1..n |-> Snapshot(name[i], at[i])] :
                name \in {f \in [1..n -> 1..MaxSnapshots] :
                            \A i, j \in 1..n : i # j => f[i] # f[j]},
                at \in [1..n -> ReportedTimes]} :
           n \in 0..MaxSnapshots}

FaultCounts == {0, 1, StorageRetries, StorageRetries + 1}

GpInit ==
    \E files \in SnapshotLists, timestamp \in {NULL, Instant(1), Instant(MaxSnapshots + 1)},
       list_faults \in FaultCounts, download_faults \in FaultCounts :
        gp = [pc |-> "list", files |-> files, timestamp |-> timestamp,
              list_faults |-> list_faults, download_faults |-> download_faults,
              list_calls |-> 0, download_calls |-> 0, slept |-> 0,
              file |-> 0, result |-> NULL, returned |-> NULL]

\* lines 325-341, timestamp given: supabase.storage.from_(...).list(...) is
\* called as it is, then the first file whose name starts with timestamp
GpListDirect ==
    /\ gp.pc = "list"
    /\ Truthy(gp.timestamp)
    /\ LET hits == {i \in DOMAIN gp.files : gp.files[i].ts = gp.timestamp}
           g == [gp EXCEPT !.list_calls = @ + 1]
       IN  gp' = IF gp.list_faults > 0
                 THEN [g EXCEPT !.pc = "raised", !.result = Raise("ConnectError")]
                 ELSE IF hits = {}
                 THEN [g EXCEPT !.pc = "raised",
                                !.result = Raise("CV with timestamp not found")]
                 ELSE [g EXCEPT !.pc = "download",
                                !.file = CHOOSE i \in hits : \A j \in hits : i <= j]
    /\ UNCHANGED <<normVars, calcVars, appVars, sk, rm, rt>>

\* lines 347-399, timestamp omitted: one invocation of the listing inside
\* _list_storage_files, then the two sorts
GpListRetried ==
    /\ gp.pc = "list"
    /\ ~Truthy(gp.timestamp)
    /\ LET g == [gp EXCEPT !.list_calls = @ + 1]
       IN  gp' = IF gp.list_calls < gp.list_faults
                 THEN IF gp.list_calls < StorageRetries
                      THEN [g EXCEPT !.slept = @ + 1]
                      ELSE [g EXCEPT
                              !.pc = "raised",
                              !.result = Raise("Failed to retrieve CV files due to connection error")]
                 ELSE IF gp.files = <<>>
                 THEN [g EXCEPT !.pc = "raised",
                                !.result = Raise("No parsed CVs found for user")]
                 ELSE [g EXCEPT !.pc = "download", !.file = LatestIndex(gp.files)]
    /\ UNCHANGED <<normVars, calcVars, appVars, sk, rm, rt>>

\* lines 333-338 and 391-399: one invocation of the download inside
\* _download_storage_file
GpDownload ==
    /\ gp.pc = "download"
    /\ LET g == [gp EXCEPT !.download_calls = @ + 1]
       IN  gp' = IF gp.download_calls < gp.download_faults
                 THEN IF gp.download_calls < StorageRetries
                      THEN [g EXCEPT !.slept = @ + 1]
                      ELSE [g EXCEPT
                              !.pc = "raised",
                              !.result = Raise("Failed to download CV file due to connection error")]
                 ELSE [g EXCEPT !.pc = "returned",
                                !.result = Return(gp.files[gp.file].data)]
    /\ UNCHANGED <<normVars, calcVars, appVars, sk, rm, rt>>

\* match_service.py 222-245: what calculate_match_score makes of the outcome
GpHandled ==
    /\ gp.pc \in {"raised", "returned"}
    /\ gp' = [gp EXCEPT
                !.pc = "handled",
                !.returned =
                    IF gp.result.raised
                    THEN NoCVResult(<<"Failed to retrieve CV data: ", gp.result.exc>>)
                    ELSE IF ~Truthy(gp.result.value)
                    THEN NoCVResult(<<"No CV data found", ". Please upload your CV first.">>)
                    ELSE NULL]
    /\ UNCHANGED <<normVars, calcVars, appVars, sk, rm, rt>>

InitStorage ==
    /\ nf = NfIdle
    /\ oc = OcIdle
    /\ http = HttpIdle
    /\ AppIdle
    /\ sk = [pc |-> "idle"]
    /\ rm = [pc |-> "idle"]
    /\ rt = [pc |-> "idle"]
    /\ GpInit

NextStorage == GpListDirect \/ GpListRetried \/ GpDownload \/ GpHandled

SpecStorage == InitStorage /\ [][NextStorage]_vars

\* the time a snapshot dates from: the update time the storage reports, or
\* without one the timestamp in its file name
EffectiveTime(f) == IF Truthy(f.updated_at) THEN f.updated_at ELSE f.ts

Later(a, b) == IF a.year # b.year THEN a.year > b.year ELSE a.rest > b.rest

\* C27: with the timestamp omitted get_parsed_cv returns a most recent
\* snapshot, by storage-reported update time and for a snapshot without one by
\* the timestamp of its file name, for every set of stored snapshots,
\* including sets where only some snapshots carry a storage-reported time.
C27_LatestSnapshotReturned ==
    (gp.pc = "returned" /\ ~Truthy(gp.timestamp)) =>
        \E i \in DOMAIN gp.files :
            /\ gp.result.value = gp.files[i].data
            /\ \A j \in DOMAIN gp.files :
                  ~Later(EffectiveTime(gp.files[j]), EffectiveTime(gp.files[i]))

\* the number of invocations a request that meets faults connection errors
\* in a row makes when it is retried up to StorageRetries times
RetriedCalls(faults) ==
    IF faults > StorageRetries THEN StorageRetries + 1 ELSE faults + 1

\* C28: every storage request of get_parsed_cv, the listing and the download,
\* with and without a timestamp, is retried on connection errors a bounded
\* number of times; when the retries are used up the failure reaches
\* calculate_match_score as an exception, which it turns into the zero-score
\* error result.
C28_EveryAccessRetried ==
    gp.pc = "handled" =>
        /\ gp.list_calls = RetriedCalls(gp.list_faults)
        /\ gp.download_calls > 0 => gp.download_calls = RetriedCalls(gp.download_faults)
        /\ gp.slept <= 2 * StorageRetries
        /\ gp.result.raised =>
                /\ gp.returned # NULL
                /\ gp.returned.final_score = 0
                /\ gp.returned.error # NULL

=============================================================================
